---- MODULE Spec2Model ----
(***************************************************************************)
(* Model of the signage server's schedule resolver                         *)
(* (src/server/main.py, GET /api/player/{access_code}/playlist), of its    *)
(* device enrolment (access-code allocator, register, config) and of the   *)
(* player's playback loop (src/player/player.py).                          *)
(*                                                                         *)
(* The stored data (devices, schedule groups, schedules, content items)    *)
(* are the rows the handler reads; a request carries the access code, the  *)
(* wall-clock instant read by datetime.now() and the order in which the    *)
(* database hands back the rows of the two eagerly loaded collections      *)
(* (neither relationship declares an order_by, so that order is not fixed  *)
(* by the program).                                                        *)
(***************************************************************************)
EXTENDS Integers, Sequences, FiniteSets, TLC

(* A table is a function from the primary keys in use to the rows.         *)
VARIABLES
    devices,          \* table devices
    schedule_groups,  \* table schedule_groups
    schedules,        \* table schedules
    content_items,    \* table content_items
    req,              \* the request being served (inputs of the handler)
    resp,             \* the response it produced, None while it is running
    code,             \* local variable code of generate_access_code
    rotated,          \* history: the access code last replaced by a rotation
    workers,          \* the device requests the thread pool is serving
    active_connections, \* manager.active_connections, in insertion order
    websockets,       \* the event streams of the players
    broadcast,        \* the loop of manager.broadcast in progress
    clock,            \* the wall clock the players share, in seconds
    players,          \* the playback state of each player's page
    files,            \* the content directory of player 1: name -> size
    signage,          \* the SignagePlayer object of player 1
    threads,          \* the calls of sync_content in progress in player 1
    last_run          \* history: the last sync of player 1 that completed

vars == <<devices, schedule_groups, schedules, content_items, req, resp,
          code, rotated, workers, active_connections, websockets, broadcast,
          clock, players, files, signage, threads, last_run>>

(* The state of the process of player 1 behind its page.                   *)
sync_vars == <<files, signage, threads, last_run>>

(* The state of the players.                                               *)
player_vars == <<clock, players, sync_vars>>

db == <<devices, schedule_groups, schedules, content_items>>

(* The state of the server.                                                *)
(* The state of the event channel.                                         *)
event_vars == <<active_connections, websockets, broadcast>>

server_vars == <<db, req, resp, code, rotated, workers, event_vars>>

----------------------------------------------------------------------------
(* Bounds of the model.                                                    *)

MaxSchedules == 2   \* schedules stored for the device's group
MaxContent == 2     \* content items stored for the device's group

----------------------------------------------------------------------------
(* Optional values: None is Python's None, Some(x) a present value.        *)

None == <<>>
Some(x) == <<x>>
IsSome(o) == o /= <<>>
The(o) == o[1]

(* SQL NULL in an integer foreign-key column.                              *)
NULL == 0

----------------------------------------------------------------------------
(* Times of day.  A datetime.time is (hour, minute, second, microsecond);  *)
(* Python orders time objects lexicographically on those four fields.      *)

Time(h, m, s, us) == [hour |-> h, minute |-> m, second |-> s, microsecond |-> us]

TimeTuple(t) == <<t.hour, t.minute, t.second, t.microsecond>>

RECURSIVE LexLE(_, _)
LexLE(a, b) ==
    IF a = <<>> THEN TRUE
    ELSE IF Head(a) < Head(b) THEN TRUE
    ELSE IF Head(a) > Head(b) THEN FALSE
    ELSE LexLE(Tail(a), Tail(b))

TimeLE(a, b) == LexLE(TimeTuple(a), TimeTuple(b))

(* parse_time: "HH:MM" is split at the colon and both parts converted with *)
(* int(); the string is represented by its two fields.  time(h, m) leaves  *)
(* second and microsecond at zero.                                         *)
parse_time(time_str) == Time(time_str[1], time_str[2], 0, 0)

(* strftime("%H:%M") and strftime("%H:%M:%S"): the fields that are printed. *)
strftime_HM(t) == <<t.hour, t.minute>>
strftime_HMS(t) == <<t.hour, t.minute, t.second>>

(* isoformat() of a datetime: its date, for which the weekday stands, and  *)
(* its time of day.                                                        *)
isoformat(d) == <<d.weekday, d.hour, d.minute, d.second, d.microsecond>>

(* str() of a weekday number 0..6.                                         *)
Digits == <<"0", "1", "2", "3", "4", "5", "6">>
str(n) == Digits[n + 1]

(* c in s, for a one-character string c and a string s given by its        *)
(* characters.                                                             *)
CharIn(c, s) == \E i \in DOMAIN s : s[i] = c

----------------------------------------------------------------------------
(* Rows and their JSON forms.                                              *)

serialize_schedule(schedule) ==
    [id |-> schedule.id,
     name |-> schedule.name,
     schedule_group_id |-> schedule.schedule_group_id,
     start_time |-> strftime_HM(schedule.start_time),
     end_time |-> strftime_HM(schedule.end_time),
     days_of_week |-> schedule.days_of_week,
     priority |-> schedule.priority,
     is_active |-> schedule.is_active]

serialize_content_item(item) ==
    [id |-> item.id,
     order |-> item.order,
     is_active |-> item.is_active,
     schedule_group_id |-> item.schedule_group_id]

(* device.schedule_group: the row the foreign key points to, if any.       *)
GroupOf(device) ==
    IF device.schedule_group_id \in DOMAIN schedule_groups
    THEN Some(schedule_groups[device.schedule_group_id])
    ELSE None

(* group.schedules and group.content_items, by primary key.                *)
SchedulesOf(group_id) ==
    {id \in DOMAIN schedules : schedules[id].schedule_group_id = group_id}
ContentOf(group_id) ==
    {id \in DOMAIN content_items : content_items[id].schedule_group_id = group_id}

(* The orders in which the rows with the given keys can be enumerated.     *)
Enumerations(ids) ==
    {f \in [1..Cardinality(ids) -> ids] :
        \A i, j \in 1..Cardinality(ids) : i /= j => f[i] /= f[j]}

(* The rows of a table in the order of an enumeration of their keys.       *)
RowsIn(table, enum) == [i \in DOMAIN enum |-> table[enum[i]]]

----------------------------------------------------------------------------
(* The resolver, get_player_playlist.                                      *)

(* The group's is_active flag left unread.                                 *)
GroupUsableWhenPresent(group) == IsSome(group)

(* The schedule group is consulted only when present and active.           *)
GroupUsable(group) == IsSome(group) /\ The(group).is_active

(* The first `continue` missing: only the weekday is looked at.            *)
SkippedOnWrongDayOnly(schedule, current_day) ==
    ~CharIn(current_day, schedule.days_of_week)

(* The two early `continue`s of the loop: inactive, or wrong weekday.      *)
Skipped(schedule, current_day) ==
    \/ ~schedule.is_active
    \/ ~CharIn(current_day, schedule.days_of_week)

(* The branch for windows that cross midnight missing.                     *)
InRangeSameDay(start_time, end_time, current_time) ==
    TimeLE(start_time, current_time) /\ TimeLE(current_time, end_time)

(* in_range, with the branch for windows that cross midnight.              *)
InRange(start_time, end_time, current_time) ==
    IF TimeLE(start_time, end_time)
    THEN TimeLE(start_time, current_time) /\ TimeLE(current_time, end_time)
    ELSE TimeLE(start_time, current_time) \/ TimeLE(current_time, end_time)

(* The comparison of priorities turned around.                             *)
ReplacesWhenLower(schedule, active_schedule) ==
    \/ active_schedule = None
    \/ schedule.priority < The(active_schedule).priority

(* A matching schedule replaces the one held so far when none is held or   *)
(* its priority is strictly greater.                                       *)
Replaces(schedule, active_schedule) ==
    \/ active_schedule = None
    \/ schedule.priority > The(active_schedule).priority

(* The for loop over group.schedules: threads active_schedule and the      *)
(* list debug_info["schedule_check_results"] through the enumeration.      *)
RECURSIVE ScheduleLoop(_, _, _, _, _)
ScheduleLoop(rest, current_time, current_day, active_schedule, results) ==
    IF rest = <<>>
    THEN [active_schedule |-> active_schedule, results |-> results]
    ELSE
        LET schedule == Head(rest)
            schedule_info ==
                [name |-> schedule.name,
                 start |-> strftime_HM(schedule.start_time),
                 end |-> strftime_HM(schedule.end_time),
                 days |-> schedule.days_of_week,
                 is_active |-> schedule.is_active,
                 day_match |-> CharIn(current_day, schedule.days_of_week),
                 time_match |-> FALSE,
                 selected |-> FALSE]
        IN  IF Skipped(schedule, current_day)
            THEN ScheduleLoop(Tail(rest), current_time, current_day,
                              active_schedule, Append(results, schedule_info))
            ELSE
                LET in_range == InRange(schedule.start_time, schedule.end_time,
                                        current_time)
                    taken == in_range /\ Replaces(schedule, active_schedule)
                IN  ScheduleLoop(Tail(rest), current_time, current_day,
                                 IF taken THEN Some(schedule) ELSE active_schedule,
                                 Append(results,
                                        [schedule_info EXCEPT
                                            !.time_match = in_range,
                                            !.selected = taken]))

(* sorted(items, key=lambda x: x.order): a stable sort, so items of equal  *)
(* order keep their enumeration order.                                     *)
RECURSIVE InsertByOrder(_, _)
InsertByOrder(item, sorted) ==
    IF sorted = <<>> THEN <<item>>
    ELSE IF item.order < Head(sorted).order THEN <<item>> \o sorted
    ELSE <<Head(sorted)>> \o InsertByOrder(item, Tail(sorted))

RECURSIVE SortedByOrder(_)
SortedByOrder(items) ==
    IF items = <<>> THEN <<>>
    ELSE InsertByOrder(items[Len(items)],
                       SortedByOrder(SubSeq(items, 1, Len(items) - 1)))

(* The loop that appends the serialized active items in sorted order.      *)
RECURSIVE ActiveSerialized(_)
ActiveSerialized(items) ==
    IF items = <<>> THEN <<>>
    ELSE IF Head(items).is_active
         THEN <<serialize_content_item(Head(items))>> \o ActiveSerialized(Tail(items))
         ELSE ActiveSerialized(Tail(items))

(* The is_active test of the items missing.                                *)
BuildPlaylistOfAllItems(active_schedule, items) ==
    IF IsSome(active_schedule)
    THEN [i \in DOMAIN items |-> serialize_content_item(SortedByOrder(items)[i])]
    ELSE <<>>

(* The commented-out branch in force: content plays without a schedule.    *)
BuildPlaylistWithFallback(active_schedule, items) ==
    ActiveSerialized(SortedByOrder(items))

(* The playlist: filled only when a schedule was selected; the branch that *)
(* would fill it without one is commented out in the source.               *)
BuildPlaylist(active_schedule, items) ==
    IF IsSome(active_schedule)
    THEN ActiveSerialized(SortedByOrder(items))
    ELSE <<>>

(* debug_info["fallback_mode"] is written when no schedule was selected    *)
(* and the group has content rows; the key is absent (FALSE) otherwise.    *)
FallbackMode(active_schedule, items) ==
    ~IsSome(active_schedule) /\ Len(items) > 0

(* The body of the handler for a device that exists.  The server's zone is *)
(* UTC: datetime.utcnow() reads what datetime.now() read.                  *)
PlaylistResponse(device, now, sched_ids, item_ids) ==
    LET group == GroupOf(device)
        sched_enum == RowsIn(schedules, sched_ids)
        item_enum == RowsIn(content_items, item_ids)
        current_time == Time(now.hour, now.minute, now.second, now.microsecond)
        current_day == str(now.weekday)
        usable == GroupUsable(group)
        loop == IF usable
                THEN ScheduleLoop(sched_enum, current_time, current_day, None, <<>>)
                ELSE [active_schedule |-> None, results |-> <<>>]
        active_schedule == loop.active_schedule
    IN  [status |-> 200,
         playlist |-> IF usable THEN BuildPlaylist(active_schedule, item_enum)
                      ELSE <<>>,
         active_schedule |-> IF IsSome(active_schedule)
                             THEN Some(serialize_schedule(The(active_schedule)))
                             ELSE None,
         device |-> [orientation |-> device.orientation,
                     flip_horizontal |-> device.flip_horizontal,
                     flip_vertical |-> device.flip_vertical],
         server_time |-> isoformat(now),
         debug |-> [current_time |-> strftime_HMS(current_time),
                    current_day |-> current_day,
                    has_schedule_group |-> IsSome(group),
                    schedule_group_active |-> IF IsSome(group)
                                              THEN The(group).is_active
                                              ELSE FALSE,
                    total_schedules |-> IF usable THEN Len(sched_enum) ELSE 0,
                    total_content |-> IF usable THEN Len(item_enum) ELSE 0,
                    schedule_check_results |-> loop.results,
                    fallback_mode |-> usable /\ FallbackMode(active_schedule, item_enum)]]

(* HTTPException(status_code=404, detail="Device not found").              *)
NotFound == [status |-> 404]

(* The rows joinedload brings in with the device: the schedules and the    *)
(* content items of its schedule group (none without a group).             *)
DeviceWithCode(access_code) ==
    {id \in DOMAIN devices : devices[id].access_code = access_code}

LoadedSchedules(access_code) ==
    UNION {SchedulesOf(devices[id].schedule_group_id) : id \in DeviceWithCode(access_code)}

LoadedContent(access_code) ==
    UNION {ContentOf(devices[id].schedule_group_id) : id \in DeviceWithCode(access_code)}

(* GET /api/player/{access_code}/playlist at instant `now`, the two        *)
(* collections being handed back in the orders sched_ids and item_ids.     *)
(* The handler writes nothing to the database.                             *)
ServePlaylist(access_code, now, sched_ids, item_ids) ==
    IF DeviceWithCode(access_code) = {}
    THEN /\ req' = Some([op |-> "get_player_playlist",
                         access_code |-> access_code, now |-> None,
                         schedules |-> <<>>, content_items |-> <<>>])
         /\ resp' = Some(NotFound)
    ELSE LET device == devices[CHOOSE id \in DeviceWithCode(access_code) : TRUE]
         IN  /\ req' = Some([op |-> "get_player_playlist",
                             access_code |-> access_code, now |-> Some(now),
                             schedules |-> sched_ids,
                             content_items |-> item_ids])
             /\ resp' = Some(PlaylistResponse(device, now, sched_ids, item_ids))

(* A playlist handler that, like get_player_config, stamps the device.     *)
GetPlayerPlaylistStamping(access_code, now, sched_ids, item_ids) ==
    /\ req = None
    /\ ServePlaylist(access_code, now, sched_ids, item_ids)
    /\ devices' = [id \in DOMAIN devices |->
                      IF devices[id].access_code = access_code
                      THEN [devices[id] EXCEPT !.last_seen = Some(now),
                                               !.is_online = TRUE]
                      ELSE devices[id]]
    /\ UNCHANGED <<schedule_groups, schedules, content_items, code, rotated,
                   workers, event_vars, player_vars>>

GetPlayerPlaylist(access_code, now, sched_ids, item_ids) ==
    /\ req = None
    /\ ServePlaylist(access_code, now, sched_ids, item_ids)
    /\ UNCHANGED <<db, code, rotated,
                   workers, event_vars, player_vars>>

(* The response leaves the server: the request is over and the server is   *)
(* ready for the next one.  Nothing of the request is kept.                *)
ReturnResponse ==
    /\ resp /= None
    /\ req' = None
    /\ resp' = None
    /\ code' = None
    /\ UNCHANGED <<db, rotated,
                   workers, event_vars, player_vars>>

----------------------------------------------------------------------------
(* Inputs of the model.                                                    *)

(* Start and end times as operators enter them: a daytime window 02:00 to  *)
(* 22:00, a window 22:00 to 02:00 that crosses midnight, and a window      *)
(* whose start and end are both 02:00.                                     *)
Windows == {<<<<2, 0>>, <<22, 0>>>>, <<<<22, 0>>, <<2, 0>>>>, <<<<2, 0>>, <<2, 0>>>>}

(* days_of_week strings: the empty mask and Monday..Friday.                *)
DayMasks == {<<>>, <<"0", "1", "2", "3", "4">>}

Priorities == {0, 5}

(* Request instants, as datetime.now() returns them: a Tuesday at         *)
(* 02:00:00, at 02:00:30.5, at 10:00:00 and at 23:30:00, and a Sunday at   *)
(* 02:00:00.                                                               *)
Instant(weekday, t) ==
    [weekday |-> weekday, hour |-> t.hour, minute |-> t.minute,
     second |-> t.second, microsecond |-> t.microsecond]

Instants ==
    {Instant(1, Time(2, 0, 0, 0)), Instant(1, Time(2, 0, 30, 500000)),
     Instant(1, Time(10, 0, 0, 0)), Instant(1, Time(23, 30, 0, 0)),
     Instant(6, Time(2, 0, 0, 0))}

KnownCode == <<"4", "8", "2", "9", "1", "3">>
UnknownCode == <<"0", "0", "0", "0", "0", "0">>
AccessCodes == {KnownCode, UnknownCode}

(* A device row as create_device stores it: the columns the constructor    *)
(* is given and the defaults of the others.                                *)
Device(id, name, access_code) ==
    [id |-> id, name |-> name, access_code |-> access_code,
     is_registered |-> FALSE, is_active |-> TRUE,
     last_seen |-> None, is_online |-> FALSE,
     schedule_group_id |-> NULL, orientation |-> "landscape",
     flip_horizontal |-> FALSE, flip_vertical |-> FALSE]

(* The one device of the resolver's model, bound to schedule group         *)
(* group_id (or NULL).                                                     *)
DeviceRow(group_id) ==
    [Device(1, "D1", KnownCode) EXCEPT !.schedule_group_id = group_id]

GroupRow(id, is_active) == [id |-> id, is_active |-> is_active]

(* A schedule row as create_schedule stores it.                            *)
ScheduleRow(id, data) ==
    [id |-> id,
     name |-> "S" \o ToString(id),
     schedule_group_id |-> data.schedule_group_id,
     start_time |-> parse_time(data.start_time),
     end_time |-> parse_time(data.end_time),
     days_of_week |-> data.days_of_week,
     priority |-> data.priority,
     is_active |-> data.is_active]

ScheduleInputs ==
    {[schedule_group_id |-> 1, start_time |-> w[1], end_time |-> w[2],
      days_of_week |-> m, priority |-> p, is_active |-> a] :
        w \in Windows, m \in DayMasks, p \in Priorities, a \in BOOLEAN}

(* A daytime schedule, 02:00 to 22:00 from Monday to Friday, priority 0,   *)
(* of group 1 or of group 2.                                               *)
DaytimeInputs ==
    {[schedule_group_id |-> g, start_time |-> <<2, 0>>, end_time |-> <<22, 0>>,
      days_of_week |-> <<"0", "1", "2", "3", "4">>, priority |-> 0,
      is_active |-> a] : g \in {1, 2}, a \in BOOLEAN}

(* The table holding k schedules created from the inputs f[1] .. f[k].     *)
ScheduleTable(k, f) == [i \in 1..k |-> ScheduleRow(i, f[i])]

ContentRow(id, data) ==
    [id |-> id, schedule_group_id |-> data.schedule_group_id,
     order |-> data.order, is_active |-> data.is_active]

Orders == {0, 1}

ContentInputs ==
    [schedule_group_id : {1, 2}, order : Orders, is_active : BOOLEAN]

ContentTable(k, f) == [i \in 1..k |-> ContentRow(i, f[i])]

(* Stored data of the first kind: the device bound to the active group 1,  *)
(* which has one active content item and up to MaxSchedules schedules of   *)
(* any window, mask, priority and active flag.                             *)
InitSchedules ==
    /\ devices = <<DeviceRow(1)>>
    /\ schedule_groups = <<GroupRow(1, TRUE), GroupRow(2, TRUE)>>
    /\ \E k \in 0..MaxSchedules : \E f \in [1..k -> ScheduleInputs] :
           schedules = ScheduleTable(k, f)
    /\ content_items = <<ContentRow(1, [schedule_group_id |-> 1, order |-> 0,
                                        is_active |-> TRUE])>>

(* Stored data of the second kind: the device unbound, or bound to group 1 *)
(* which is active or not; at most one daytime schedule; up to MaxContent  *)
(* content items of any group, order and active flag.                      *)
InitContent ==
    /\ \E group_id \in {NULL, 1}, is_active \in BOOLEAN :
           /\ group_id = NULL => is_active
           /\ devices = <<DeviceRow(group_id)>>
           /\ schedule_groups = <<GroupRow(1, is_active), GroupRow(2, TRUE)>>
    /\ \E k \in 0..1 : \E f \in [1..k -> DaytimeInputs] :
           schedules = ScheduleTable(k, f)
    /\ \E k \in 0..MaxContent : \E f \in [1..k -> ContentInputs] :
           content_items = ContentTable(k, f)

(* The player's page (PLAYER_HTML of src/player/player.py): playlist,      *)
(* currentIndex and advanceTimeout are the variables of its script,        *)
(* last_sync is the time of the sync that started the playback.  The       *)
(* players' clocks are synchronised: they all read `clock`.  A pending     *)
(* setTimeout is the time at which it fires and the function it calls.     *)

MaxClock == 6   \* the clock stops here

Players == {1, 2}

(* let playlist = []; let currentIndex = 0; let defaultDisplay = null;     *)
(* let syncInterval = null; let advanceTimeout = null; and what the page   *)
(* shows: screen is "loading" until loadConfig() has run, "setup" while    *)
(* the setup screen is shown, "connecting" and "registered" while a first  *)
(* sync is awaited, "playing" once playback has started; video is          *)
(* "playing" while the video element plays a file.  advanceTimeout is the  *)
(* pending timeout, None when none is pending.                             *)
PlayerOff ==
    [playlist |-> <<>>, currentIndex |-> 0, defaultDisplay |-> None,
     syncInterval |-> FALSE, advanceTimeout |-> None, last_sync |-> 0,
     screen |-> "loading", video |-> "none"]

(* setTimeout(callback, delay) called at time now.                         *)
setTimeout(callback, delay, now) == Some([at |-> now + delay, callback |-> callback])

(* showContent() at time now.  A video of the playlist is played, and its  *)
(* ended and error events call advance(); an image is shown and advance()  *)
(* is scheduled display_duration seconds later; when currentIndex is past  *)
(* the end of the playlist, reading the item throws and nothing is         *)
(* scheduled.  With an empty playlist the page shows the default display   *)
(* and looks again in 10 s, or a black screen and looks again in 5 s.      *)
showContent(player, now) ==
    IF Len(player.playlist) > 0
    THEN IF player.currentIndex >= Len(player.playlist)
         THEN [player EXCEPT !.advanceTimeout = None]
         ELSE LET item == player.playlist[player.currentIndex + 1]
              IN  IF item.file_type = "video"
                  THEN [player EXCEPT !.video = "playing",
                                      !.advanceTimeout = None]
                  ELSE [player EXCEPT !.advanceTimeout =
                           setTimeout("advance", item.display_duration, now)]
    ELSE IF player.defaultDisplay /= None
         THEN [player EXCEPT !.advanceTimeout = setTimeout("showContent", 10, now)]
         ELSE [player EXCEPT !.advanceTimeout = setTimeout("showContent", 5, now)]

(* A mutation of advance: the index does not wrap at the end of the        *)
(* playlist.                                                               *)
advanceWithoutWrap(player, now) ==
    showContent(
        IF Len(player.playlist) > 0
        THEN [player EXCEPT !.currentIndex = player.currentIndex + 1]
        ELSE player,
        now)

(* advance() at time now.                                                  *)
advance(player, now) ==
    showContent(
        IF Len(player.playlist) > 0
        THEN [player EXCEPT !.currentIndex =
                                (player.currentIndex + 1) % Len(player.playlist)]
        ELSE player,
        now)

(* The first sync of player p has delivered `playlist`: the page stores it *)
(* and calls startPlayback(), which calls showContent().                   *)
StartPlayback(p, playlist) ==
    /\ players[p].advanceTimeout = None
    /\ players' = [players EXCEPT ![p] =
                      showContent([@ EXCEPT !.playlist = playlist,
                                            !.screen = "playing",
                                            !.last_sync = clock], clock)]
    /\ UNCHANGED <<clock, server_vars, sync_vars>>

(* The pending timeout of player p is due.                                 *)
Due(p) ==
    /\ IsSome(players[p].advanceTimeout)
    /\ The(players[p].advanceTimeout).at <= clock

(* The timeout of player p fires and calls its function.                   *)
TimeoutFires(p) ==
    /\ Due(p)
    /\ players' = [players EXCEPT ![p] =
                      IF The(@.advanceTimeout).callback = "advance"
                      THEN advance(@, clock)
                      ELSE showContent(@, clock)]
    /\ UNCHANGED <<clock, server_vars, sync_vars>>

(* A second passes, once every timeout that was due has fired.             *)
Tick ==
    /\ clock < MaxClock
    /\ \A p \in Players : ~Due(p)
    /\ clock' = clock + 1
    /\ UNCHANGED <<players, server_vars, sync_vars>>

(* The threads of player 1's process that run the calls its page makes.    *)
Threads == {1, 2}

(* A thread with no call to run.                                           *)
ThreadIdle ==
    [pc |-> "idle", caller |-> "", status |-> 0, playlist_data |-> None,
     new_playlist |-> <<>>, i |-> 0, downloaded |-> FALSE, failed |-> FALSE,
     result |-> FALSE]

(* SignagePlayer.__init__ with a configuration that names no server, and   *)
(* an empty content directory.                                             *)
SignageOff ==
    /\ files = <<>>
    /\ signage = [access_code |-> None, playlist |-> <<>>,
                  default_display |-> None, last_sync |-> 0,
                  sync_lock |-> None]
    /\ threads = [t \in Threads |-> ThreadIdle]
    /\ last_run = None

(* No player has started.                                                  *)
PlayersOff ==
    /\ clock = 0
    /\ players = [p \in Players |-> PlayerOff]
    /\ SignageOff

(* The event streams players open, as WebSocket objects of the server.     *)
Connections == {1, 2}

(* A WebSocket no player has opened yet.  state is "new", then "open"      *)
(* once accepted, "lost" when the player is gone and the server has not    *)
(* been told, and "closed" when websocket_endpoint has returned or raised. *)
WebSocketNew == [state |-> "new", access_code |-> None, received |-> 0]

(* The threads of the pool that runs the handlers declared with def.       *)
Workers == {1, 2}

(* A thread of the pool with no request to serve.                          *)
WorkerIdle ==
    [pc |-> "idle", op |-> "", name |-> "", device_id |-> 0,
     code |-> None, resp |-> None]

(* No request is being served.                                             *)
Idle ==
    /\ req = None
    /\ resp = None
    /\ code = None
    /\ rotated = None
    /\ workers = [w \in Workers |-> WorkerIdle]
    /\ active_connections = <<>>
    /\ websockets = [c \in Connections |-> WebSocketNew]
    /\ broadcast = None

Init ==
    /\ InitSchedules \/ InitContent
    /\ Idle
    /\ PlayersOff

Next ==
    \/ ReturnResponse
    \/ \E access_code \in AccessCodes :
         \E sched_ids \in Enumerations(LoadedSchedules(access_code)),
            item_ids \in Enumerations(LoadedContent(access_code)) :
             \E now \in Instants :
                 GetPlayerPlaylist(access_code, now, sched_ids, item_ids)

SpecResolver == Init /\ [][Next]_vars

----------------------------------------------------------------------------
(* What the properties below speak about: the request that was answered,   *)
(* the stored rows it concerned, and the matching rule stated on the time  *)
(* elapsed since midnight.                                                 *)

Answered == IsSome(resp) /\ The(resp).status = 200

Request == The(req)
Response == The(resp)
RequestNow == The(Request.now)
RequestDevice ==
    devices[CHOOSE id \in DOMAIN devices :
                devices[id].access_code = Request.access_code]

HasGroup == RequestDevice.schedule_group_id \in DOMAIN schedule_groups
GroupActive == HasGroup /\ schedule_groups[RequestDevice.schedule_group_id].is_active

GroupSchedules ==
    {id \in DOMAIN schedules :
        schedules[id].schedule_group_id = RequestDevice.schedule_group_id}
GroupContent ==
    {id \in DOMAIN content_items :
        content_items[id].schedule_group_id = RequestDevice.schedule_group_id}

SecondOfDay(t) == (t.hour * 60 + t.minute) * 60 + t.second

(* a is not later in the day than b.                                       *)
NotAfter(a, b) ==
    \/ SecondOfDay(a) < SecondOfDay(b)
    \/ SecondOfDay(a) = SecondOfDay(b) /\ a.microsecond <= b.microsecond

InWindow(t, a, b) ==
    IF NotAfter(a, b)
    THEN NotAfter(a, t) /\ NotAfter(t, b)
    ELSE NotAfter(a, t) \/ NotAfter(t, b)

DayInMask(weekday, mask) == \E i \in 1..Len(mask) : mask[i] = ToString(weekday)

Matches(s, now) ==
    /\ s.is_active
    /\ DayInMask(now.weekday, s.days_of_week)
    /\ InWindow(now, s.start_time, s.end_time)

MatchingSchedules == {id \in GroupSchedules : Matches(schedules[id], RequestNow)}

MaxMatchingPriority ==
    CHOOSE p \in {schedules[id].priority : id \in MatchingSchedules} :
        \A id \in MatchingSchedules : schedules[id].priority <= p

SelectedId == The(Response.active_schedule).id

----------------------------------------------------------------------------
(* C1: whenever at least one schedule of the device's active group matches *)
(* the request instant, the schedule returned as active_schedule is one of *)
(* the matching schedules and no matching schedule has a greater priority, *)
(* whatever the order in which the schedules were enumerated.              *)
C1_HighestPriorityWins ==
    (Answered /\ GroupActive /\ MatchingSchedules /= {}) =>
        /\ IsSome(Response.active_schedule)
        /\ SelectedId \in MatchingSchedules
        /\ \A id \in MatchingSchedules :
               schedules[id].priority <= schedules[SelectedId].priority

(* A request in which the matching schedule of lower priority was          *)
(* enumerated after the one of higher priority, and one was returned.      *)
C1_Witness ==
    /\ Answered /\ GroupActive
    /\ IsSome(Response.active_schedule)
    /\ \E i, j \in DOMAIN Request.schedules :
           /\ i < j
           /\ Request.schedules[i] \in MatchingSchedules
           /\ Request.schedules[j] \in MatchingSchedules
           /\ schedules[Request.schedules[i]].priority
                  > schedules[Request.schedules[j]].priority

(* C2: when two matching schedules share the greatest priority among the   *)
(* matching schedules, active_schedule is the one with the smaller id,     *)
(* whatever the enumeration order.                                         *)
C2_TieGoesToSmallerId ==
    (Answered /\ GroupActive /\ IsSome(Response.active_schedule)) =>
        \A a, b \in MatchingSchedules :
            (/\ a < b
             /\ schedules[a].priority = schedules[b].priority
             /\ schedules[a].priority = MaxMatchingPriority)
            => SelectedId /= b

(* The entries of debug.schedule_check_results, one per enumerated         *)
(* schedule, and the stored schedule the i-th entry is about.              *)
CheckResults == Response.debug.schedule_check_results
CheckedSchedule(i) == schedules[Request.schedules[i]]

(* The schedules for which the time-window test was carried out.           *)
Tested(s) == s.is_active /\ DayInMask(RequestNow.weekday, s.days_of_week)

(* C3: for every schedule whose window is tested, time_match is            *)
(* start <= t <= end when start <= end, and t >= start or t <= end when    *)
(* start > end (the window crosses midnight).                              *)
C3_TimeWindowTest ==
    (Answered /\ GroupActive) =>
        \A i \in DOMAIN CheckResults :
            Tested(CheckedSchedule(i)) =>
                (CheckResults[i].time_match
                    <=> InWindow(RequestNow, CheckedSchedule(i).start_time,
                                 CheckedSchedule(i).end_time))

(* A 22:00-02:00 schedule found to match at 23:30 on a Tuesday.            *)
C3_Witness ==
    /\ Answered /\ GroupActive
    /\ Response.debug.current_time = <<23, 30, 0>>
    /\ \E i \in DOMAIN CheckResults :
           /\ CheckResults[i].start = <<22, 0>>
           /\ CheckResults[i].end = <<2, 0>>
           /\ CheckResults[i].time_match

(* C4: the schedule returned as active_schedule is active and its          *)
(* days_of_week contains the digit of the current weekday; so a schedule   *)
(* with an empty mask is never returned.                                   *)
C4_NeverInactiveNorWrongDay ==
    (Answered /\ IsSome(Response.active_schedule)) =>
        /\ schedules[SelectedId].is_active
        /\ DayInMask(RequestNow.weekday, schedules[SelectedId].days_of_week)
        /\ schedules[SelectedId].days_of_week /= <<>>

(* A schedule of greater priority whose window holds the instant was       *)
(* passed over, being inactive or lacking the weekday in its mask, and a   *)
(* schedule of lower priority was returned.                                *)
C4_Witness ==
    /\ Answered /\ IsSome(Response.active_schedule)
    /\ \E id \in GroupSchedules :
           /\ ~Tested(schedules[id])
           /\ InWindow(RequestNow, schedules[id].start_time,
                       schedules[id].end_time)
           /\ schedules[id].priority > schedules[SelectedId].priority

ActiveContent == {id \in GroupContent : content_items[id].is_active}

(* C5: when an active schedule is returned, the playlist holds exactly the *)
(* active content items of the group, each once, in non-decreasing order   *)
(* of their order attribute.                                               *)
C5_PlaylistIsActiveContentInOrder ==
    (Answered /\ IsSome(Response.active_schedule)) =>
        LET P == Response.playlist
        IN  /\ {P[i].id : i \in DOMAIN P} = ActiveContent
            /\ \A i \in DOMAIN P :
                   /\ P[i].is_active
                   /\ P[i].order = content_items[P[i].id].order
            /\ \A i, j \in DOMAIN P :
                   i < j => P[i].id /= P[j].id /\ P[i].order <= P[j].order

(* Two active items handed back by the database in decreasing order of     *)
(* their order attribute, and played in increasing order.                  *)
C5_Witness ==
    /\ Answered /\ IsSome(Response.active_schedule)
    /\ Len(Response.playlist) = 2
    /\ Len(Request.content_items) = 2
    /\ content_items[Request.content_items[1]].order
           > content_items[Request.content_items[2]].order
    /\ Response.playlist[1].id = Request.content_items[2]

(* C6: a device without a schedule group, or whose group is inactive, gets *)
(* an empty playlist and no active_schedule.                               *)
C6_NoPlaylistWithoutActiveGroup ==
    (Answered /\ ~GroupActive) =>
        /\ Response.playlist = <<>>
        /\ Response.active_schedule = None

(* An inactive group that has a matching schedule and an active item.      *)
C6_Witness ==
    /\ Answered /\ HasGroup /\ ~GroupActive
    /\ MatchingSchedules /= {}
    /\ ActiveContent /= {}
    /\ Response.playlist = <<>>

(* C7 as stated: the playlist is empty if and only if no schedule matches  *)
(* and the device's group is empty (absent or without content) or          *)
(* inactive.                                                               *)
C7_EmptyIffNoMatchAndEmptyOrInactive ==
    Answered =>
        (Response.playlist = <<>>
            <=> (/\ MatchingSchedules = {}
                 /\ (~HasGroup \/ GroupContent = {} \/ ~GroupActive)))

(* C7 as amended: the playlist is empty if and only if no schedule of the  *)
(* group matches, or the device has no group or an inactive one, or the    *)
(* group has no active content item.                                       *)
C7_EmptyIffNoMatchOrNoActiveGroupOrNoActiveContent ==
    Answered =>
        (Response.playlist = <<>>
            <=> (\/ MatchingSchedules = {}
                 \/ ~GroupActive
                 \/ ActiveContent = {}))

(* An active group with an active item and a schedule, none matching: the  *)
(* playlist is empty.                                                      *)
C7_Witness ==
    /\ Answered /\ GroupActive
    /\ GroupSchedules /= {}
    /\ MatchingSchedules = {}
    /\ ActiveContent /= {}
    /\ Response.playlist = <<>>

(* C8: for an active group with no matching schedule the playlist is       *)
(* empty, and debug.fallback_mode is set exactly when the group has at     *)
(* least one active content item.                                          *)
C8_FallbackFlagIffActiveContent ==
    (Answered /\ GroupActive /\ MatchingSchedules = {}) =>
        /\ Response.playlist = <<>>
        /\ Response.debug.fallback_mode <=> ActiveContent /= {}

(* C9: when some schedule matches, exactly one entry of                    *)
(* debug.schedule_check_results has selected = true, and it is the entry   *)
(* of the schedule returned as active_schedule.                            *)
C9_ExactlyOneSelected ==
    (Answered /\ GroupActive /\ MatchingSchedules /= {}) =>
        LET marked == {i \in DOMAIN CheckResults : CheckResults[i].selected}
        IN  /\ Cardinality(marked) = 1
            /\ \A i \in marked : Request.schedules[i] = SelectedId

(* C10: a tested schedule whose start and end are the same HH:MM matches   *)
(* at every instant of that minute and at no other instant.                *)
C10_EqualStartEndMatchesItsMinute ==
    (Answered /\ GroupActive) =>
        \A i \in DOMAIN CheckResults :
            LET s == CheckedSchedule(i)
            IN  (Tested(s) /\ s.start_time = s.end_time) =>
                    (CheckResults[i].time_match
                        <=> (/\ RequestNow.hour = s.start_time.hour
                             /\ RequestNow.minute = s.start_time.minute))

----------------------------------------------------------------------------
(* The resolver and the stored data.                                       *)

(* The step that serves a playlist request.                                *)
PlaylistRequestServed ==
    /\ req = None
    /\ IsSome(req')
    /\ The(req').op = "get_player_playlist"

(* C11: a playlist request leaves all stored data unchanged: no device,    *)
(* schedule group, schedule or content item attribute (last_seen and the   *)
(* online flag included) differs before and after the request.             *)
C11_PlaylistRequestWritesNothing ==
    [][PlaylistRequestServed =>
          /\ devices' = devices
          /\ schedule_groups' = schedule_groups
          /\ schedules' = schedules
          /\ content_items' = content_items]_vars

(* A playlist with an item has been served to the device, whose last_seen  *)
(* is still unset and whose online flag is still false.                    *)
C11_Witness ==
    /\ Answered
    /\ Len(Response.playlist) > 0
    /\ devices[1].last_seen = None
    /\ ~devices[1].is_online

(* The response the handler gives to the same request when the two         *)
(* collections are enumerated in the orders sched_ids and item_ids.        *)
ResponseUnder(sched_ids, item_ids) ==
    PlaylistResponse(RequestDevice, RequestNow, sched_ids, item_ids)

(* C12: for a fixed stored state and a fixed request instant, two playlist *)
(* requests for the same device return identical output (the same          *)
(* active_schedule, the same playlist in the same order, the same debug    *)
(* entries).                                                               *)
C12_SameOutputForSameStateAndInstant ==
    Answered =>
        \A sched_ids \in Enumerations(LoadedSchedules(Request.access_code)),
           item_ids \in Enumerations(LoadedContent(Request.access_code)) :
            ResponseUnder(sched_ids, item_ids) = Response

----------------------------------------------------------------------------
(* Device enrolment: the access-code allocator and the handlers that       *)
(* create, rotate, delete, update and register devices.  The server        *)
(* serves one request at a time: a handler starts when no request is in    *)
(* progress (req = None) and resp stays None while it is running.          *)

(* Bounds of the enrolment model.                                          *)
CodesInRange == 2   \* codes of the allocator's range that are kept
MaxDeviceId == 2    \* largest primary key a created device gets

(* random.randint(100000, 999999).                                         *)
randint_low == 100000
randint_high == 999999

(* str() of a non-negative integer: its decimal digits, most significant   *)
(* first, no padding.                                                      *)
DecimalDigits == <<"0", "1", "2", "3", "4", "5", "6", "7", "8", "9">>

RECURSIVE StrInt(_)
StrInt(n) ==
    IF n < 10 THEN <<DecimalDigits[n + 1]>>
    ELSE Append(StrInt(n \div 10), DecimalDigits[(n % 10) + 1])

Min(a, b) == IF a <= b THEN a ELSE b

(* The integers randint draws from: the range of the program, cut to its   *)
(* first CodesInRange values.                                              *)
AllocatorRange ==
    randint_low .. Min(randint_high, randint_low + CodesInRange - 1)

(* db.query(Device).filter(Device.access_code == code).first()             *)
existing(access_code) == DeviceWithCode(access_code) /= {}

(* The draws after which generate_access_code returns.                     *)
FreshDraws == {n \in AllocatorRange : ~existing(StrInt(n))}

(* The primary key of the next row inserted into devices: an INTEGER       *)
(* PRIMARY KEY column of SQLite gets the largest key in use plus one.      *)
NextDeviceId ==
    IF DOMAIN devices = {} THEN 1
    ELSE (CHOOSE id \in DOMAIN devices : \A other \in DOMAIN devices : other <= id) + 1

serialize_device(device) ==
    [id |-> device.id,
     name |-> device.name,
     access_code |-> device.access_code,
     last_seen |-> device.last_seen,
     is_online |-> device.is_online,
     is_active |-> device.is_active,
     is_registered |-> device.is_registered,
     orientation |-> device.orientation,
     flip_horizontal |-> device.flip_horizontal,
     flip_vertical |-> device.flip_vertical,
     schedule_group_id |-> device.schedule_group_id]

(* HTTPException(status_code, detail).                                     *)
HTTPException(status_code, detail) == [status |-> status_code, detail |-> detail]

(* A handler's normal return.                                              *)
Ok(body) == [status |-> 200, body |-> body]

(* The table with row `device` inserted or replaced.                       *)
WithRow(table, device) ==
    [id \in DOMAIN table \cup {device.id} |->
        IF id = device.id THEN device ELSE table[id]]

(* The table without the row of key id.                                    *)
WithoutRow(table, id) == [other \in DOMAIN table \ {id} |-> table[other]]

(* The handler in progress is inside generate_access_code.                 *)
Allocating ==
    /\ IsSome(req)
    /\ resp = None
    /\ The(req).op \in {"create_device", "regenerate_access_code"}

(* POST /api/devices: the handler calls generate_access_code.  A creation  *)
(* that would get a key beyond MaxDeviceId is left out, unless no code is  *)
(* free (then it inserts nothing).                                         *)
CreateDevice(name) ==
    /\ req = None
    /\ NextDeviceId <= MaxDeviceId \/ FreshDraws = {}
    /\ req' = Some([op |-> "create_device", name |-> name])
    /\ resp' = None
    /\ code' = None
    /\ UNCHANGED <<db, rotated,
                   workers, event_vars, player_vars>>

(* POST /api/devices/{device_id}/regenerate-code: 404 for an unknown       *)
(* device, otherwise the handler calls generate_access_code.               *)
RegenerateAccessCode(device_id) ==
    /\ req = None
    /\ req' = Some([op |-> "regenerate_access_code", device_id |-> device_id])
    /\ resp' = IF device_id \in DOMAIN devices THEN None
               ELSE Some(HTTPException(404, "Device not found"))
    /\ code' = None
    /\ UNCHANGED <<db, rotated,
                   workers, event_vars, player_vars>>

(* What create_device does with the code generate_access_code returned.    *)
FinishCreate(access_code) ==
    LET device == Device(NextDeviceId, The(req).name, access_code)
    IN  /\ devices' = WithRow(devices, device)
        /\ resp' = Some(Ok(serialize_device(device)))
        /\ UNCHANGED rotated

(* What regenerate_access_code does with the code it was returned.         *)
FinishRegenerate(access_code) ==
    LET old == devices[The(req).device_id]
        device == [old EXCEPT !.access_code = access_code,
                              !.is_registered = FALSE]
    IN  /\ devices' = WithRow(devices, device)
        /\ resp' = Some(Ok([access_code |-> device.access_code]))
        /\ rotated' = Some(old.access_code)

(* An allocator that accepts every draw.                                   *)
TakenNever(access_code) == FALSE

(* An allocator that rejects every draw.                                   *)
TakenAlways(access_code) == TRUE

(* `if not existing` fails: the drawn code is in use.                      *)
Taken(access_code) == existing(access_code)

(* One iteration of the loop of generate_access_code, randint drawing n.   *)
(* A code in use sends the loop round again; a code that is free is        *)
(* returned and the calling handler runs to its end.                       *)
GenerateAccessCode(n) ==
    /\ Allocating
    /\ code' = Some(StrInt(n))
    /\ IF Taken(StrInt(n))
       THEN UNCHANGED <<devices, resp, rotated>>
       ELSE IF The(req).op = "create_device"
            THEN FinishCreate(StrInt(n))
            ELSE FinishRegenerate(StrInt(n))
    /\ UNCHANGED <<schedule_groups, schedules, content_items, req,
                   workers, event_vars, player_vars>>

(* DELETE /api/devices/{device_id}.                                        *)
DeleteDevice(device_id) ==
    /\ req = None
    /\ req' = Some([op |-> "delete_device", device_id |-> device_id])
    /\ IF device_id \in DOMAIN devices
       THEN /\ devices' = WithoutRow(devices, device_id)
            /\ resp' = Some(Ok([status |-> "deleted"]))
       ELSE /\ devices' = devices
            /\ resp' = Some(HTTPException(404, "Device not found"))
    /\ UNCHANGED <<schedule_groups, schedules, content_items, code, rotated,
                   workers, event_vars, player_vars>>

(* PATCH /api/devices/{device_id} with is_active set.                      *)
UpdateDevice(device_id, is_active) ==
    /\ req = None
    /\ req' = Some([op |-> "update_device", device_id |-> device_id,
                    is_active |-> is_active])
    /\ IF device_id \in DOMAIN devices
       THEN LET device == [devices[device_id] EXCEPT !.is_active = is_active]
            IN  /\ devices' = WithRow(devices, device)
                /\ resp' = Some(Ok(serialize_device(device)))
       ELSE /\ devices' = devices
            /\ resp' = Some(HTTPException(404, "Device not found"))
    /\ UNCHANGED <<schedule_groups, schedules, content_items, code, rotated,
                   workers, event_vars, player_vars>>

(* The device .first() returns for an access code.                         *)
FirstWithCode(access_code) ==
    devices[CHOOSE id \in DeviceWithCode(access_code) : TRUE]

(* A register handler that turns away no device.                           *)
RefusedNever(device) == FALSE

(* A register handler that turns away a device that is already bound.     *)
RefusedOnceBound(device) == ~device.is_active \/ device.is_registered

(* `if not device.is_active`.                                              *)
Refused(device) == ~device.is_active

(* POST /api/player/register, datetime.utcnow() reading utcnow.            *)
RegisterPlayer(access_code, utcnow) ==
    /\ req = None
    /\ req' = Some([op |-> "register_player", access_code |-> access_code])
    /\ IF ~existing(access_code)
       THEN /\ devices' = devices
            /\ resp' = Some(HTTPException(404, "Invalid access code"))
       ELSE IF Refused(FirstWithCode(access_code))
       THEN /\ devices' = devices
            /\ resp' = Some(HTTPException(403, "Device is disabled"))
       ELSE LET device == [FirstWithCode(access_code) EXCEPT
                               !.is_registered = TRUE,
                               !.last_seen = Some(utcnow)]
            IN  /\ devices' = WithRow(devices, device)
                /\ resp' = Some(Ok([success |-> TRUE,
                                    device_name |-> device.name,
                                    device_id |-> device.id,
                                    access_code |-> device.access_code]))
    /\ UNCHANGED <<schedule_groups, schedules, content_items, code, rotated,
                   workers, event_vars, player_vars>>

(* The content manifest of get_player_config: the active items of the      *)
(* device's group, in the order of their enumeration.                      *)
Manifest(device, item_ids) ==
    IF IsSome(GroupOf(device))
    THEN ActiveSerialized(RowsIn(content_items, item_ids))
    ELSE <<>>

(* GET /api/player/{access_code}/config, datetime.utcnow() reading utcnow  *)
(* and the content items being handed back in the order item_ids.  The     *)
(* default display and the server time of the response are left out.       *)
GetPlayerConfig(access_code, utcnow, item_ids) ==
    /\ req = None
    /\ req' = Some([op |-> "get_player_config", access_code |-> access_code])
    /\ IF ~existing(access_code)
       THEN /\ devices' = devices
            /\ resp' = Some(HTTPException(404, "Device not found"))
       ELSE LET device == [FirstWithCode(access_code) EXCEPT
                               !.last_seen = Some(utcnow),
                               !.is_online = TRUE]
            IN  /\ devices' = WithRow(devices, device)
                /\ resp' = Some(Ok([device |-> serialize_device(device),
                                    content_items |-> Manifest(device, item_ids)]))
    /\ UNCHANGED <<schedule_groups, schedules, content_items, code, rotated,
                   workers, event_vars, player_vars>>

----------------------------------------------------------------------------
(* Inputs and specifications of the enrolment model.                       *)

(* The codes players send: every code of the allocator's range and one     *)
(* outside it.                                                             *)
PlayerCodes == {StrInt(n) : n \in AllocatorRange} \cup {UnknownCode}

(* The reading of datetime.utcnow(): a Tuesday at 10:00:00.                *)
UtcNows == {Instant(1, Time(10, 0, 0, 0))}

(* Device ids operators send.                                              *)
DeviceIds == 1..MaxDeviceId

(* The name the operator gives the next device.                            *)
DeviceNames == {"Display " \o ToString(NextDeviceId)}

(* An empty database.                                                      *)
InitEnrol ==
    /\ devices = <<>>
    /\ schedule_groups = <<>>
    /\ schedules = <<>>
    /\ content_items = <<>>
    /\ Idle
    /\ PlayersOff

(* The requests of operators that allocate or free access codes.           *)
NextAllocator ==
    \/ ReturnResponse
    \/ \E name \in DeviceNames : CreateDevice(name)
    \/ \E device_id \in DeviceIds : RegenerateAccessCode(device_id)
    \/ \E n \in AllocatorRange : GenerateAccessCode(n)
    \/ \E device_id \in DeviceIds : DeleteDevice(device_id)

(* The requests of players and the deactivation of devices.                *)
NextPlayer ==
    \/ \E device_id \in DeviceIds, is_active \in BOOLEAN :
           UpdateDevice(device_id, is_active)
    \/ \E access_code \in PlayerCodes, utcnow \in UtcNows :
           RegisterPlayer(access_code, utcnow)
    \/ \E access_code \in PlayerCodes, utcnow \in UtcNows :
         \E item_ids \in Enumerations(LoadedContent(access_code)) :
           GetPlayerConfig(access_code, utcnow, item_ids)
    \/ \E access_code \in PlayerCodes, now \in UtcNows :
         \E sched_ids \in Enumerations(LoadedSchedules(access_code)),
            item_ids \in Enumerations(LoadedContent(access_code)) :
           GetPlayerPlaylist(access_code, now, sched_ids, item_ids)

NextEnrol == NextAllocator \/ NextPlayer

SpecEnrol == InitEnrol /\ [][NextEnrol]_vars

(* random.randint is fair: a loop that keeps drawing, with a free code in  *)
(* the range, eventually draws a free code.                                *)
FairDraw == WF_vars(\E n \in FreshDraws : GenerateAccessCode(n))

SpecAllocator == InitEnrol /\ [][NextAllocator]_vars /\ FairDraw

----------------------------------------------------------------------------
(* Enrolment claims.                                                       *)

(* The request being served, or just served, is a call of `op`.            *)
Serving(op) == IsSome(req) /\ The(req).op = op

(* The handler of `op` has returned normally.                              *)
Succeeded(op) == Serving(op) /\ Answered

(* The step in which a request `op` is received and answered.              *)
Served(op) ==
    /\ req = None
    /\ IsSome(req')
    /\ The(req').op = op
    /\ IsSome(resp')

(* The access codes of the stored devices.                                 *)
CodesInUse == {devices[id].access_code : id \in DOMAIN devices}

(* C13: after any sequence of create-device, regenerate-code and           *)
(* delete-device requests executed one at a time, no two existing devices  *)
(* have the same access code.                                              *)
C13_AccessCodesUnique ==
    \A a, b \in DOMAIN devices :
        a /= b => devices[a].access_code /= devices[b].access_code

(* Two devices exist, one of them created after a rotation freed a code.   *)
C13_Witness ==
    /\ Cardinality(DOMAIN devices) = 2
    /\ IsSome(rotated)
    /\ Succeeded("create_device")

(* C14: POST /player/register with an access code: 404 if no device has    *)
(* that code; 403 if the device with that code is inactive; otherwise the  *)
(* device is marked registered and the response carries its name and id.   *)
(* In the two error outcomes no device's registered flag or last_seen      *)
(* changes.                                                                *)
BindingsUnchanged ==
    /\ DOMAIN devices' = DOMAIN devices
    /\ \A id \in DOMAIN devices :
        /\ devices'[id].is_registered = devices[id].is_registered
        /\ devices'[id].last_seen = devices[id].last_seen

C14_RegisterOutcomes ==
    [][Served("register_player") =>
          LET known == DeviceWithCode(The(req').access_code)
              answer == The(resp')
          IN  IF known = {}
              THEN answer.status = 404 /\ BindingsUnchanged
              ELSE \A id \in known :
                     IF ~devices[id].is_active
                     THEN answer.status = 403 /\ BindingsUnchanged
                     ELSE /\ answer.status = 200
                          /\ answer.body.device_name = devices[id].name
                          /\ answer.body.device_id = id
                          /\ devices'[id].is_registered]_vars

(* A register request for the code of a deactivated device has been        *)
(* answered 403, and the device is still neither registered nor seen.      *)
C14_Witness ==
    /\ Serving("register_player")
    /\ IsSome(resp)
    /\ The(resp).status = 403
    /\ \E id \in DeviceWithCode(The(req).access_code) :
        /\ ~devices[id].is_active
        /\ ~devices[id].is_registered
        /\ devices[id].last_seen = None

(* C15: registering is idempotent: posting the code of an active device to *)
(* register succeeds, and posting the same code again (no rotation,        *)
(* deactivation or deletion in between) succeeds again and leaves the      *)
(* device bound to the same device id.                                     *)
C15_RegisterIdempotent ==
    [][Served("register_player") =>
          \A id \in DeviceWithCode(The(req').access_code) :
              devices[id].is_active =>
                  /\ The(resp').status = 200
                  /\ The(resp').body.success
                  /\ The(resp').body.device_id = id
                  /\ devices'[id].is_registered
                  /\ devices'[id].access_code = devices[id].access_code
                  /\ devices[id].is_registered =>
                         devices' = [devices EXCEPT ![id].last_seen =
                                                        devices'[id].last_seen]]_vars

(* A register request has succeeded for a device that is bound and that a  *)
(* player has fetched its configuration from.                              *)
C15_Witness ==
    /\ Succeeded("register_player")
    /\ \E id \in DeviceWithCode(The(req).access_code) :
        /\ The(resp).body.device_id = id
        /\ devices[id].is_registered
        /\ devices[id].is_online

(* The requests of players, which are keyed on an access code.             *)
PlayerOps == {"register_player", "get_player_config", "get_player_playlist"}

(* C16: after regenerate-code on a device, the device is unbound and every *)
(* later player request keyed on the old code (register, config, playlist) *)
(* returns 404, after any subsequent sequence of server operations         *)
(* including further device creations and code rotations.                  *)
C16_OldCodeStays404 ==
    /\ Succeeded("regenerate_access_code") =>
           ~devices[The(req).device_id].is_registered
    /\ (/\ IsSome(rotated)
        /\ IsSome(resp)
        /\ The(req).op \in PlayerOps
        /\ The(req).access_code = The(rotated)) => The(resp).status = 404

(* A create-device request is inside the allocation loop.                  *)
Creating == Allocating /\ The(req).op = "create_device"

(* C17: a create-device request terminates and yields a code distinct from *)
(* all existing codes whenever at least one code of the allocator's range  *)
(* is unused, the random draw being fair; the allocation loop fails to     *)
(* terminate only when every code of the range is already in use, and      *)
(* then it never returns.                                                  *)
C17_CreateTerminatesUnlessExhausted ==
    /\ (Creating /\ FreshDraws /= {}) ~> Succeeded("create_device")
    /\ [][(Creating /\ ~Creating') =>
             /\ FreshDraws /= {}
             /\ The(code') \notin CodesInUse
             /\ The(resp').body.access_code = The(code')
             /\ DOMAIN devices' = DOMAIN devices \cup {The(resp').body.id}
             /\ devices'[The(resp').body.id].access_code = The(code')]_vars
    /\ [][(Creating /\ FreshDraws = {}) => Creating']_vars

(* A create-device request has completed with the last free code of the    *)
(* range: every code of the range is now in use.                           *)
C17_Witness ==
    /\ Succeeded("create_device")
    /\ FreshDraws = {}
    /\ Cardinality(DOMAIN devices) = CodesInRange

(* A string of exactly six decimal digits.                                 *)
IsDigit(c) == \E i \in DOMAIN DecimalDigits : DecimalDigits[i] = c
SixDigits(s) == Len(s) = 6 /\ \A i \in 1..Len(s) : IsDigit(s[i])

(* int() of a string of decimal digits.                                    *)
DigitValue(c) == (CHOOSE i \in DOMAIN DecimalDigits : DecimalDigits[i] = c) - 1

RECURSIVE IntStr(_)
IntStr(s) ==
    IF s = <<>> THEN 0
    ELSE IntStr(SubSeq(s, 1, Len(s) - 1)) * 10 + DigitValue(s[Len(s)])

(* The allocator of the program can return s: some integer of randint's    *)
(* range prints as s.  str is one-to-one and int undoes it, so that        *)
(* integer can only be int(s).                                             *)
CanProduce(s) ==
    /\ IntStr(s) \in randint_low..randint_high
    /\ StrInt(IntStr(s)) = s

(* Six-digit strings: the two ends of randint's range, a code in between   *)
(* and two strings that start with zeros.                                  *)
SixDigitStrings ==
    {StrInt(randint_low), StrInt(randint_high), KnownCode, UnknownCode,
     <<"0", "1", "2", "3", "4", "5">>}

(* C18: every access code the allocator produces is a string of exactly    *)
(* six decimal digits, and the allocator can produce every six-digit       *)
(* decimal string, those with leading zeros included.                      *)
C18_SixDigitsAndEveryStringProduced ==
    IsSome(code) =>
        /\ SixDigits(The(code))
        /\ \A s \in SixDigitStrings : SixDigits(s) /\ CanProduce(s)

----------------------------------------------------------------------------
(* Playback of two players.  The server is at rest; what the players'      *)
(* syncs deliver is the same playlist of two images, shown for one and     *)
(* for two seconds.                                                        *)

Image(id, display_duration) ==
    [id |-> id, file_type |-> "image", display_duration |-> display_duration]

FetchedPlaylist == <<Image(1, 1), Image(2, 2)>>

NextPlayers ==
    \/ Tick
    \/ \E p \in Players : StartPlayback(p, FetchedPlaylist)
    \/ \E p \in Players : TimeoutFires(p)

SpecPlayers == InitEnrol /\ [][NextPlayers]_vars

(* Player p is showing an item of its playlist.                            *)
Playing(p) ==
    /\ Len(players[p].playlist) > 0
    /\ IsSome(players[p].advanceTimeout)
    /\ ~Due(p)

CurrentItem(p) == players[p].playlist[players[p].currentIndex + 1]

(* C19: two players with synchronised clocks which fetched the same        *)
(* playlist at different times (and so started playback at different       *)
(* times) display the same playlist item at every wall-clock instant at    *)
(* which both are playing.                                                 *)
C19_SameItemAtEveryCommonInstant ==
    \A p, q \in Players :
        (/\ Playing(p)
         /\ Playing(q)
         /\ players[p].playlist = players[q].playlist
         /\ players[p].last_sync /= players[q].last_sync)
            => CurrentItem(p).id = CurrentItem(q).id

(* The cycle origin a playlist response carries, if it carries one.        *)
SyncOrigin(response) ==
    IF "sync" \in DOMAIN response THEN Some(response.sync.origin) ELSE None

(* C20: across two playlist requests for devices of the same group between *)
(* which no content item's active flag, order or duration changed, the     *)
(* sync origin returned by the server is the same value.                   *)
C20_SameOriginWhileCompositionUnchanged ==
    Answered =>
        /\ IsSome(SyncOrigin(Response))
        /\ \A now \in Instants :
             \A sched_ids \in Enumerations(LoadedSchedules(Request.access_code)),
                item_ids \in Enumerations(LoadedContent(Request.access_code)) :
                 SyncOrigin(PlaylistResponse(RequestDevice, now, sched_ids, item_ids))
                     = SyncOrigin(Response)

----------------------------------------------------------------------------
(* Content sync of player 1: SignagePlayer.sync_content, api_request and   *)
(* download_file of src/player/player.py.  The page's calls run on the     *)
(* threads of the process; what the server answers to each request, and    *)
(* how each download ends, is an input.  The content directory is          *)
(* writable: unlink() does not fail.                                       *)

ContentItem(id, filename, file_type, display_duration, file_size) ==
    [id |-> id, filename |-> filename, file_type |-> file_type,
     url |-> filename, display_duration |-> display_duration,
     file_size |-> file_size]

(* File names are sequences of characters.                                 *)
ItemA == ContentItem(1, <<"a">>, "image", 1, 3)

ItemB == ContentItem(2, <<"b">>, "video", 2, 5)

(* The files the server serves under /uploads, and their sizes in bytes.   *)
Uploads ==
    [n \in {<<"a">>, <<"b">>, <<"l">>, <<"g">>} |->
        CASE n = <<"a">> -> 3 [] n = <<"b">> -> 5 [] n = <<"l">> -> 4
          [] n = <<"g">> -> 6]

(* The playlists the server may serve.                                     *)
ServerPlaylists == {<<>>, <<ItemA>>, <<ItemA, ItemB>>}

(* The default displays it may serve: none, or one with a logo and no      *)
(* background.                                                             *)
DefaultDisplays ==
    {None, Some([logo_filename |-> Some(<<"l">>), backgrounds |-> <<>>])}

(* urlopen() raised URLError: the server could not be reached.             *)
URLError == [status |-> 0]

(* What a request of the playlist, and of the configuration, may end with. *)
PlaylistOutcomes ==
    {URLError, NotFound}
        \cup {[status |-> 200, body |-> [playlist |-> playlist]] :
                playlist \in ServerPlaylists}

ConfigOutcomes ==
    {URLError, NotFound}
        \cup {[status |-> 200, body |-> [default_display |-> d]] :
                d \in DefaultDisplays}

(* api_request(endpoint) when the request ends with `outcome`: the decoded *)
(* body, or None after any error.                                          *)
api_request(outcome) ==
    IF outcome.status = 200 THEN Some(outcome.body) ELSE None

(* The directory `directory` after `size` bytes were written to `name`.    *)
write_bytes(directory, name, size) ==
    [n \in DOMAIN directory \cup {name} |->
        IF n = name THEN size ELSE directory[n]]

(* How a download may end: the file is written; urlopen() or read() raises *)
(* and nothing is written; write_bytes() raises after it truncated the     *)
(* file.                                                                   *)
DownloadOutcomes == {"written", "not opened", "truncated"}

(* The directory after download_file(url, local_path).                     *)
download_file(directory, url, local_path, outcome) ==
    CASE outcome = "written" -> write_bytes(directory, local_path, Uploads[url])
      [] outcome = "not opened" -> directory
      [] outcome = "truncated" -> write_bytes(directory, local_path, 0)

(* A mutation of Stale: every item is downloaded anew.                     *)
StaleAlways(directory, item) == TRUE

(* The condition under which sync_content downloads a playlist item.       *)
Stale(directory, item) ==
    \/ item.filename \notin DOMAIN directory
    \/ directory[item.filename] /= item.file_size

(* The local names and the urls of the assets of a default display.        *)
Assets(default_display) ==
    IF default_display = None THEN {}
    ELSE LET d == The(default_display)
         IN  (IF IsSome(d.logo_filename)
              THEN {[local |-> <<"_", "l", "o", "g", "o", "_">>
                                   \o The(d.logo_filename),
                     url |-> The(d.logo_filename)]}
              ELSE {})
             \cup {[local |-> <<"_", "b", "g", "_">> \o d.backgrounds[k],
                    url |-> d.backgrounds[k]] : k \in DOMAIN d.backgrounds}

(* name.startswith('_')                                                    *)
startswith(name, prefix) ==
    /\ Len(name) >= Len(prefix)
    /\ SubSeq(name, 1, Len(prefix)) = prefix

(* A mutation of locked: the lock is never seen held.                      *)
lockedNever == FALSE

(* self.sync_lock.locked()                                                 *)
locked == IsSome(signage.sync_lock)

(* sync_content() is called on thread t for `caller`, a function of the    *)
(* page.  Without an access code it returns False at once; otherwise the   *)
(* thread goes on to `with self.sync_lock`.                                *)
SyncContent(t, caller) ==
    /\ threads[t].pc = "idle"
    /\ threads' = [threads EXCEPT ![t] =
                      IF signage.access_code = None
                      THEN [ThreadIdle EXCEPT !.pc = "returned",
                                              !.caller = caller]
                      ELSE [ThreadIdle EXCEPT !.pc = "lock",
                                              !.caller = caller]]

(* with self.sync_lock: thread t enters once the lock is free.             *)
Acquire(t) ==
    /\ threads[t].pc = "lock"
    /\ ~locked
    /\ signage' = [signage EXCEPT !.sync_lock = Some(t)]
    /\ threads' = [threads EXCEPT ![t].pc = "playlist"]
    /\ UNCHANGED <<files, last_run, clock, players, server_vars>>

(* playlist_data = self.api_request(".../playlist"); without an answer     *)
(* the call returns False and leaves the lock.                             *)
FetchPlaylist(t, outcome) ==
    /\ threads[t].pc = "playlist"
    /\ LET playlist_data == api_request(outcome)
       IN  IF playlist_data = None
           THEN /\ threads' = [threads EXCEPT ![t].pc = "returned",
                                              ![t].status = outcome.status,
                                              ![t].result = FALSE]
                /\ signage' = [signage EXCEPT !.sync_lock = None]
           ELSE /\ threads' = [threads EXCEPT ![t].pc = "config",
                                              ![t].status = outcome.status,
                                              ![t].playlist_data = playlist_data]
                /\ UNCHANGED signage
    /\ UNCHANGED <<files, last_run, clock, players, server_vars>>

(* config_data = self.api_request(".../config"); the default display is    *)
(* replaced when there is an answer; the playlist is parsed.               *)
FetchConfig(t, outcome) ==
    /\ threads[t].pc = "config"
    /\ LET config_data == api_request(outcome)
       IN  signage' = IF config_data = None THEN signage
                      ELSE [signage EXCEPT !.default_display =
                                               The(config_data).default_display]
    /\ threads' = [threads EXCEPT
                      ![t].pc = "download",
                      ![t].new_playlist = The(threads[t].playlist_data).playlist,
                      ![t].i = 1]
    /\ UNCHANGED <<files, last_run, clock, players, server_vars>>

(* A mutation of DownloadContent: a download that fails ends the call,     *)
(* which returns False.                                                    *)
DownloadContentOrAbort(t, outcome) ==
    /\ threads[t].pc = "download"
    /\ threads[t].i <= Len(threads[t].new_playlist)
    /\ LET item == threads[t].new_playlist[threads[t].i]
       IN  /\ files' = IF Stale(files, item)
                       THEN download_file(files, item.url, item.filename, outcome)
                       ELSE files
           /\ IF Stale(files, item) /\ outcome /= "written"
              THEN /\ threads' = [threads EXCEPT ![t].pc = "returned",
                                                 ![t].failed = TRUE,
                                                 ![t].result = FALSE]
                   /\ signage' = [signage EXCEPT !.sync_lock = None]
              ELSE /\ threads' = [threads EXCEPT
                                     ![t].i = @ + 1,
                                     ![t].downloaded = @ \/ Stale(files, item)]
                   /\ UNCHANGED signage
    /\ UNCHANGED <<last_run, clock, players, server_vars>>

(* One round of `for item in new_playlist`: the item is downloaded when    *)
(* its file is missing or has another size than the server reported; what  *)
(* download_file returns is not looked at.                                 *)
DownloadContent(t, outcome) ==
    /\ threads[t].pc = "download"
    /\ threads[t].i <= Len(threads[t].new_playlist)
    /\ LET item == threads[t].new_playlist[threads[t].i]
       IN  IF Stale(files, item)
           THEN /\ files' = download_file(files, item.url, item.filename, outcome)
                /\ threads' = [threads EXCEPT
                                  ![t].i = @ + 1,
                                  ![t].downloaded = TRUE,
                                  ![t].failed = @ \/ outcome /= "written"]
           ELSE /\ outcome = "written"
                /\ threads' = [threads EXCEPT ![t].i = @ + 1]
                /\ UNCHANGED files
    /\ UNCHANGED <<signage, last_run, clock, players, server_vars>>

(* The assets of the default display that are not in the directory.        *)
MissingAssets == {a \in Assets(signage.default_display) : a.local \notin DOMAIN files}

(* After the loop, the logo and the backgrounds of the default display are *)
(* downloaded when they are missing; outcome[a] is how the download of     *)
(* asset a ends.                                                           *)
DownloadAssets(t, outcome) ==
    /\ threads[t].pc = "download"
    /\ threads[t].i > Len(threads[t].new_playlist)
    /\ LET written == {a \in MissingAssets : outcome[a] /= "not opened"}
           Source(n) == CHOOSE a \in written : a.local = n
       IN  files' = [n \in DOMAIN files \cup {a.local : a \in written} |->
                        IF n \in DOMAIN files THEN files[n]
                        ELSE download_file(files, Source(n).url, n,
                                           outcome[Source(n)])[n]]
    /\ threads' = [threads EXCEPT
                      ![t].pc = "cleanup",
                      ![t].downloaded = @ \/ MissingAssets /= {},
                      ![t].failed = @ \/ \E a \in MissingAssets :
                                               outcome[a] /= "written"]
    /\ UNCHANGED <<signage, last_run, clock, players, server_vars>>

(* The names sync_content keeps: those of the new playlist and of the      *)
(* assets of the default display.                                          *)
current_filenames(new_playlist, default_display) ==
    {new_playlist[k].filename : k \in DOMAIN new_playlist}
        \cup {a.local : a \in Assets(default_display)}

(* Clean up old files: every file of the directory whose name is not kept  *)
(* and does not start with an underscore is removed.                       *)
CleanUp(t) ==
    /\ threads[t].pc = "cleanup"
    /\ LET kept == current_filenames(threads[t].new_playlist,
                                     signage.default_display)
       IN  files' = [n \in {m \in DOMAIN files :
                               m \in kept \/ startswith(m, <<"_">>)} |->
                        files[n]]
    /\ threads' = [threads EXCEPT ![t].pc = "install"]
    /\ UNCHANGED <<signage, last_run, clock, players, server_vars>>

(* self.playlist = new_playlist; self.last_sync = time.time(); return True *)
(* and the lock is left.                                                   *)
Install(t) ==
    /\ threads[t].pc = "install"
    /\ signage' = [signage EXCEPT !.playlist = threads[t].new_playlist,
                                  !.last_sync = clock,
                                  !.sync_lock = None]
    /\ threads' = [threads EXCEPT ![t].pc = "returned", ![t].result = TRUE]
    /\ last_run' = Some([playlist_data |-> The(threads[t].playlist_data),
                         default_display |-> signage.default_display,
                         failed |-> threads[t].failed])
    /\ UNCHANGED <<files, clock, players, server_vars>>

(* An item of the playlist as PlayerAPI.sync_content hands it to the page: *)
(* local_url is the content of the file as a data URL, None when the file  *)
(* is not in the directory.                                                *)
PageItem(item, directory) ==
    [id |-> item.id, file_type |-> item.file_type,
     display_duration |-> item.display_duration,
     local_url |-> IF item.filename \in DOMAIN directory
                   THEN Some(directory[item.filename]) ELSE None]

(* What PlayerAPI.sync_content() returns after self.player.sync_content()  *)
(* returned `success`.                                                     *)
sync_content(success, playlist, default_display, directory) ==
    IF success
    THEN [success |-> TRUE,
          playlist |-> [k \in DOMAIN playlist |-> PageItem(playlist[k], directory)],
          default_display |-> default_display]
    ELSE [success |-> FALSE]

(* syncFn().then(...) of autoConnect() and of registerDevice(): after a    *)
(* successful sync the setup screen is hidden, startPlayback() and         *)
(* startSyncLoop() are called; after a failed one the setup screen is      *)
(* shown.                                                                  *)
autoConnect(player, result, now) ==
    IF result.success
    THEN showContent([player EXCEPT !.playlist = result.playlist,
                                    !.defaultDisplay = result.default_display,
                                    !.screen = "playing",
                                    !.syncInterval = TRUE,
                                    !.last_sync = now], now)
    ELSE [player EXCEPT !.screen = "setup"]

(* A mutation of startSyncLoop: a failed sync empties the playlist and      *)
(* goes back to its start.                                                 *)
startSyncLoopOrStop(player, result) ==
    IF result.success
    THEN [player EXCEPT !.playlist = result.playlist,
                        !.defaultDisplay = result.default_display]
    ELSE [player EXCEPT !.playlist = <<>>, !.currentIndex = 0]

(* syncFn().then(...) of startSyncLoop(): the playlist and the default     *)
(* display are replaced after a successful sync, and nothing is done after *)
(* a failed one.                                                           *)
startSyncLoop(player, result) ==
    IF result.success
    THEN [player EXCEPT !.playlist = result.playlist,
                        !.defaultDisplay = result.default_display]
    ELSE player

(* loadConfig() of the page of player 1: with a saved access code the page *)
(* connects (autoConnect), without one it shows the setup screen.          *)
LoadConfig(t) ==
    /\ players[1].screen = "loading"
    /\ IF IsSome(signage.access_code)
       THEN /\ SyncContent(t, "autoConnect")
            /\ players' = [players EXCEPT ![1].screen = "connecting"]
       ELSE /\ players' = [players EXCEPT ![1].screen = "setup"]
            /\ UNCHANGED threads
    /\ UNCHANGED <<files, signage, last_run, clock, server_vars>>

(* What POST /api/player/register may end with.                            *)
RegisterOutcomes == {URLError, NotFound, [status |-> 403], [status |-> 200]}

(* registerDevice() on the setup screen, PlayerAPI.register_device: when   *)
(* the server accepts the code it is stored in the configuration.          *)
RegisterDevice(outcome) ==
    /\ players[1].screen = "setup"
    /\ IF outcome.status = 200
       THEN /\ signage' = [signage EXCEPT !.access_code = Some(KnownCode)]
            /\ players' = [players EXCEPT ![1].screen = "registered"]
       ELSE UNCHANGED <<signage, players>>
    /\ UNCHANGED <<files, threads, last_run, clock, server_vars>>

(* The first sync after the registration.                                  *)
SyncAfterRegister(t) ==
    /\ players[1].screen = "registered"
    /\ SyncContent(t, "registerDevice")
    /\ players' = [players EXCEPT ![1].screen = "connecting"]
    /\ UNCHANGED <<files, signage, last_run, clock, server_vars>>

(* The interval of startSyncLoop() fires.                                  *)
SyncLoopTick(t) ==
    /\ players[1].syncInterval
    /\ SyncContent(t, "startSyncLoop")
    /\ UNCHANGED <<files, signage, last_run, clock, players, server_vars>>

(* The call on thread t returns to the page: PlayerAPI.sync_content builds *)
(* the answer and the page runs the callback of the caller.                *)
SyncReturns(t) ==
    /\ threads[t].pc = "returned"
    /\ LET result == sync_content(threads[t].result, signage.playlist,
                                  signage.default_display, files)
       IN  players' = [players EXCEPT ![1] =
                          IF threads[t].caller = "startSyncLoop"
                          THEN startSyncLoop(@, result)
                          ELSE autoConnect(@, result, clock)]
    /\ threads' = [threads EXCEPT ![t] = ThreadIdle]
    /\ UNCHANGED <<files, signage, last_run, clock, server_vars>>

(* The ended event of the video element of player p.                       *)
VideoEnded(p) ==
    /\ players[p].video = "playing"
    /\ players' = [players EXCEPT ![p] = advance([@ EXCEPT !.video = "ended"], clock)]
    /\ UNCHANGED <<clock, server_vars, sync_vars>>

(* The error event of the video element of player p.                       *)
VideoError(p) ==
    /\ players[p].video = "playing"
    /\ players' = [players EXCEPT ![p] = advance([@ EXCEPT !.video = "error"], clock)]
    /\ UNCHANGED <<clock, server_vars, sync_vars>>

(* Ctrl+S on the page of player p during playback: the keydown handler     *)
(* shows the setup screen and does nothing else.                           *)
KeydownCtrlS(p) ==
    /\ players[p].screen = "playing"
    /\ players' = [players EXCEPT ![p].screen = "setup"]
    /\ UNCHANGED <<clock, server_vars, sync_vars>>

(* The player is started again: the page is loaded anew, the process       *)
(* keeps what it stored on disk, the configuration and the content         *)
(* directory.                                                              *)
Restart ==
    /\ players[1].screen = "playing"
    /\ \A t \in Threads : threads[t].pc = "idle"
    /\ players' = [players EXCEPT ![1] = PlayerOff]
    /\ signage' = [signage EXCEPT !.playlist = <<>>, !.default_display = None,
                                  !.last_sync = 0]
    /\ UNCHANGED <<files, threads, last_run, clock, server_vars>>

(* The steps of the call of sync_content that runs on thread t, where the  *)
(* configuration requests end with one of config_outcomes and the          *)
(* downloads with one of download_outcomes.                                *)
SyncStep(t, config_outcomes, download_outcomes) ==
    \/ LoadConfig(t)
    \/ SyncAfterRegister(t)
    \/ SyncLoopTick(t)
    \/ Acquire(t)
    \/ \E outcome \in PlaylistOutcomes : FetchPlaylist(t, outcome)
    \/ \E outcome \in config_outcomes : FetchConfig(t, outcome)
    \/ \E outcome \in download_outcomes : DownloadContent(t, outcome)
    \/ \E outcome \in [MissingAssets -> download_outcomes] :
           DownloadAssets(t, outcome)
    \/ CleanUp(t)
    \/ Install(t)
    \/ SyncReturns(t)

(* The process of player 1 with the calls of its page on any thread; no    *)
(* time passes.                                                            *)
NextSync ==
    \/ Restart
    \/ \E outcome \in RegisterOutcomes : RegisterDevice(outcome)
    \/ \E t \in Threads : SyncStep(t, ConfigOutcomes, DownloadOutcomes)

SpecSync == InitEnrol /\ [][NextSync]_vars

(* Player 1 as a whole, its page with its timers and its video element and *)
(* its process, where the page makes one call at a time, the server has no *)
(* default display and every download succeeds.                            *)
NextPlayback ==
    \/ Tick
    \/ TimeoutFires(1)
    \/ VideoEnded(1)
    \/ VideoError(1)
    \/ KeydownCtrlS(1)
    \/ Restart
    \/ \E outcome \in RegisterOutcomes : RegisterDevice(outcome)
    \/ SyncStep(1, {URLError, [status |-> 200, body |-> [default_display |-> None]]},
                {"written"})

SpecPlayback == InitEnrol /\ [][NextPlayback]_vars

----------------------------------------------------------------------------
(* Properties of the content sync.                                         *)

(* Thread t is inside sync_content, past the two requests.                 *)
Syncing(t) == threads[t].pc \in {"download", "cleanup", "install"}

(* The run of thread t repeats the last completed run: that run had no     *)
(* failed download, and the server answered this one with the same         *)
(* playlist and the same default display.                                  *)
Repeats(t) ==
    /\ Syncing(t)
    /\ IsSome(last_run)
    /\ ~The(last_run).failed
    /\ threads[t].playlist_data = Some(The(last_run).playlist_data)
    /\ signage.default_display = The(last_run).default_display

(* C21: a sync that follows a completed sync whose downloads all           *)
(* succeeded, against the same server playlist, downloads nothing, leaves  *)
(* the files of the content directory as they were and installs the same   *)
(* playlist.                                                               *)
C21_SecondSyncChangesNothing ==
    [][\A t \in Threads :
          Repeats(t) =>
              /\ files' = files
              /\ ~threads'[t].downloaded
              /\ threads'[t].pc = "returned" =>
                     /\ threads'[t].result
                     /\ signage'.playlist = The(last_run).playlist_data.playlist]_vars

(* A second sync of a playlist of two items is about to install it.        *)
C21_Witness ==
    \E t \in Threads :
        /\ Repeats(t)
        /\ threads[t].pc = "install"
        /\ Len(threads[t].new_playlist) = 2
        /\ IsSome(signage.default_display)

(* Thread t returns True from sync_content in this step.                   *)
SyncSucceeds(t) == threads[t].pc = "install" /\ threads'[t].pc = "returned"

(* The file names of a playlist.                                           *)
Filenames(playlist) == {playlist[k].filename : k \in DOMAIN playlist}

(* C22: after every successful sync, the set of files in the content       *)
(* directory equals the set of filenames of the current playlist: every    *)
(* playlist file is present and no other file remains.                     *)
C22_DirectoryEqualsPlaylist ==
    [][\A t \in Threads :
          SyncSucceeds(t) => DOMAIN files' = Filenames(signage'.playlist)]_vars

(* Thread t is inside `with self.sync_lock`: at the fetch, the download,   *)
(* the eviction or the assignment of the playlist.                         *)
InSync(t) == threads[t].pc \in {"playlist", "config", "download", "cleanup", "install"}

(* C23: at most one content sync is in progress per player at any time:    *)
(* while one call of sync_content is between its fetch and its playlist    *)
(* assignment, no other call is.                                           *)
C23_OneSyncAtATime ==
    \A t, u \in Threads : InSync(t) /\ InSync(u) => t = u

(* One call is downloading while another waits for the lock.               *)
C23_Witness ==
    \E t, u \in Threads :
        /\ threads[t].pc = "download"
        /\ threads[u].pc = "lock"
        /\ signage.sync_lock = Some(t)

(* C24: a failed download of a playlist item does not abort the sync: the  *)
(* call stays in sync_content until it returns True, and when it returns   *)
(* every item has been gone through, the files that are neither kept nor   *)
(* assets are evicted and the new playlist, the failed item included, is   *)
(* installed.                                                              *)
C24_FailedDownloadDoesNotAbort ==
    [][\A t \in Threads :
          InSync(t) /\ threads'[t].failed =>
              /\ \/ threads'[t].pc \in {"download", "cleanup", "install"}
                 \/ threads'[t].pc = "returned" /\ threads'[t].result
              /\ threads'[t].pc = "returned" =>
                     /\ threads[t].i > Len(threads[t].new_playlist)
                     /\ signage'.playlist = The(threads[t].playlist_data).playlist
                     /\ \A n \in DOMAIN files' :
                            \/ n \in Filenames(signage'.playlist)
                            \/ startswith(n, <<"_">>)]_vars

(* A sync of two items has returned True although a download failed and    *)
(* the file of the first item is not in the directory.                     *)
C24_Witness ==
    \E t \in Threads :
        /\ threads[t].pc = "returned"
        /\ threads[t].result
        /\ threads[t].failed
        /\ signage.playlist = <<ItemA, ItemB>>
        /\ ItemA.filename \notin DOMAIN files
        /\ ItemB.filename \in DOMAIN files

----------------------------------------------------------------------------
(* Properties of player 1 as a whole.                                      *)

(* The periodic sync on thread t finds the server unreachable in this      *)
(* step.                                                                   *)
PeriodicSyncFails(t) ==
    /\ threads[t].caller = "startSyncLoop"
    /\ threads[t].pc = "playlist"
    /\ threads'[t].pc = "returned"
    /\ threads'[t].status = URLError.status

(* The page is told in this step that its periodic sync failed because the *)
(* server was unreachable.                                                 *)
PageLearnsOfFailure(t) ==
    /\ threads[t].caller = "startSyncLoop"
    /\ threads[t].pc = "returned"
    /\ ~threads[t].result
    /\ threads[t].status = URLError.status
    /\ threads'[t].pc = "idle"

(* C25: when a periodic sync fails because the server is unreachable, the  *)
(* playlist of the process and of the page, the current index and the      *)
(* cached files are unchanged, and so are the pending advance timeout and  *)
(* the playing video by which the playback loop goes on through the        *)
(* last-known playlist.                                                    *)
C25_FailedPeriodicSyncChangesNothing ==
    [][\A t \in Threads :
          PeriodicSyncFails(t) \/ PageLearnsOfFailure(t) =>
              /\ files' = files
              /\ signage'.playlist = signage.playlist
              /\ players' = players]_vars

(* The page learns of a failed periodic sync while it shows the second     *)
(* item of a playlist of two.                                              *)
C25_Witness ==
    \E t \in Threads :
        /\ threads[t].caller = "startSyncLoop"
        /\ threads[t].pc = "returned"
        /\ ~threads[t].result
        /\ threads[t].status = URLError.status
        /\ Len(players[1].playlist) = 2
        /\ players[1].currentIndex = 1
        /\ players[1].video = "playing"

(* advance() is called on the page of player p in this step, by the        *)
(* timeout of an image or by the ended or error event of the video.        *)
AdvanceCalled(p) ==
    /\ threads' = threads
    /\ clock' = clock
    /\ players'[p] /= players[p]
    /\ \/ /\ players[p].video = "playing"
          /\ \E event \in {"ended", "error"} :
                 players'[p] = advance([players[p] EXCEPT !.video = event], clock)
       \/ /\ Due(p)
          /\ The(players[p].advanceTimeout).callback = "advance"
          /\ players'[p] = advance(players[p], clock)

(* C26: within one player and a playlist of N items that a step leaves     *)
(* unchanged, the step moves the current index, if at all, from i to       *)
(* (i+1) mod N, and for N > 1 every call of advance moves it, whatever the *)
(* order of timeouts, video events and syncs.                              *)
C26_TransitionsGoToTheNextItem ==
    [][\A p \in Players :
          LET N == Len(players[p].playlist)
              i == players[p].currentIndex
          IN  players'[p].playlist = players[p].playlist /\ N > 0 =>
                  /\ players'[p].currentIndex /= i =>
                         players'[p].currentIndex = (i + 1) % N
                  /\ N > 1 /\ AdvanceCalled(p) => players'[p].currentIndex /= i]_vars

(* The page has gone from the video, the last of two items, back to the    *)
(* first while a periodic sync is under way.                               *)
C26_Witness ==
    /\ Len(players[1].playlist) = 2
    /\ players[1].video = "ended"
    /\ players[1].currentIndex = 0
    /\ IsSome(players[1].advanceTimeout)
    /\ clock > 0
    /\ threads[1].caller = "startSyncLoop"
    /\ threads[1].pc = "install"

(* C29: when the playlist fetch of a sync returns 404 after an earlier     *)
(* sync with the same access code succeeded, the page shows the setup      *)
(* screen (the re-enrol state) once the call has returned to it.           *)
C29_NotFoundAfterSuccessShowsSetup ==
    [][\A t \in Threads :
          (/\ IsSome(last_run)
           /\ threads[t].pc = "returned"
           /\ threads[t].status = NotFound.status
           /\ threads'[t].pc = "idle")
              => players'[1].screen = "setup"]_vars

----------------------------------------------------------------------------
(* The operator's requests on schedules, content order and device          *)
(* bindings (src/server/main.py), served one at a time.  A time string is  *)
(* the sequence of its characters.  The database is SQLite as the engine   *)
(* is created, without PRAGMA foreign_keys: a reference to a row that does *)
(* not exist is stored as it is.                                           *)

(* time_str.split(":")                                                     *)
RECURSIVE split(_)
split(time_str) ==
    IF CharIn(":", time_str)
    THEN LET k == CHOOSE i \in DOMAIN time_str :
                      /\ time_str[i] = ":"
                      /\ \A j \in 1..(i - 1) : time_str[j] /= ":"
         IN  <<SubSeq(time_str, 1, k - 1)>>
                 \o split(SubSeq(time_str, k + 1, Len(time_str)))
    ELSE <<time_str>>

(* int(part) raises ValueError: part is not a decimal numeral.             *)
int_raises(part) == part = <<>> \/ \E i \in DOMAIN part : ~IsDigit(part[i])

(* parse_time(time_str) raises: IndexError without a colon, ValueError     *)
(* from int() or from time() for an hour or a minute out of range.         *)
parse_time_raises(time_str) ==
    LET parts == split(time_str)
    IN  \/ Len(parts) < 2
        \/ int_raises(parts[1])
        \/ int_raises(parts[2])
        \/ IntStr(parts[1]) > 23
        \/ IntStr(parts[2]) > 59

(* int(parts[0]), int(parts[1]): what parse_time passes to time().         *)
hour_minute(time_str) ==
    <<IntStr(split(time_str)[1]), IntStr(split(time_str)[2])>>

(* The answer of the framework when a handler raises anything but an       *)
(* HTTPException.                                                          *)
InternalServerError == [status |-> 500]

(* The key the database gives the next row of a table.                     *)
NextId(table) ==
    IF DOMAIN table = {} THEN 1
    ELSE (CHOOSE id \in DOMAIN table : \A other \in DOMAIN table : other <= id) + 1

(* POST /api/schedules                                                     *)
CreateSchedule(data) ==
    /\ req = None
    /\ NextId(schedules) <= MaxSchedules
    /\ req' = Some([op |-> "create_schedule", data |-> data])
    /\ IF parse_time_raises(data.start_time) \/ parse_time_raises(data.end_time)
       THEN /\ resp' = Some(InternalServerError)
            /\ UNCHANGED schedules
       ELSE LET schedule ==
                    ScheduleRow(NextId(schedules),
                                [data EXCEPT !.start_time = hour_minute(@),
                                             !.end_time = hour_minute(@)])
            IN  /\ schedules' = WithRow(schedules, schedule)
                /\ resp' = Some(Ok(serialize_schedule(schedule)))
    /\ UNCHANGED <<devices, schedule_groups, content_items, code, rotated,
                   workers, event_vars, player_vars>>

(* PATCH /api/schedules/{schedule_id}: data holds the fields that are set. *)
UpdateSchedule(schedule_id, data) ==
    /\ req = None
    /\ req' = Some([op |-> "update_schedule", schedule_id |-> schedule_id,
                    data |-> data])
    /\ IF schedule_id \notin DOMAIN schedules
       THEN /\ resp' = Some(HTTPException(404, "Schedule not found"))
            /\ UNCHANGED schedules
       ELSE IF \E key \in DOMAIN data \cap {"start_time", "end_time"} :
                   parse_time_raises(data[key])
       THEN /\ resp' = Some(InternalServerError)
            /\ UNCHANGED schedules
       ELSE LET update_data ==
                    [key \in DOMAIN data |->
                        IF key \in {"start_time", "end_time"}
                        THEN parse_time(hour_minute(data[key]))
                        ELSE data[key]]
                schedule ==
                    [key \in DOMAIN schedules[schedule_id] |->
                        IF key \in DOMAIN update_data THEN update_data[key]
                        ELSE schedules[schedule_id][key]]
            IN  /\ schedules' = WithRow(schedules, schedule)
                /\ resp' = Some(Ok(serialize_schedule(schedule)))
    /\ UNCHANGED <<devices, schedule_groups, content_items, code, rotated,
                   workers, event_vars, player_vars>>

(* DELETE /api/schedules/{schedule_id}                                     *)
DeleteSchedule(schedule_id) ==
    /\ req = None
    /\ req' = Some([op |-> "delete_schedule", schedule_id |-> schedule_id])
    /\ IF schedule_id \in DOMAIN schedules
       THEN /\ schedules' = WithoutRow(schedules, schedule_id)
            /\ resp' = Some(Ok([status |-> "deleted"]))
       ELSE /\ UNCHANGED schedules
            /\ resp' = Some(HTTPException(404, "Schedule not found"))
    /\ UNCHANGED <<devices, schedule_groups, content_items, code, rotated,
                   workers, event_vars, player_vars>>

(* POST /api/schedule-groups/{group_id}/reorder: every id of item_ids that *)
(* is an item of the group gets its position in item_ids as its order.     *)
ReorderContent(group_id, item_ids) ==
    /\ req = None
    /\ req' = Some([op |-> "reorder_content", group_id |-> group_id,
                    item_ids |-> item_ids])
    /\ content_items' =
           [id \in DOMAIN content_items |->
               LET item == content_items[id]
                   at == {k \in DOMAIN item_ids : item_ids[k] = id}
               IN  IF at /= {} /\ item.schedule_group_id = group_id
                   THEN [item EXCEPT !.order =
                            (CHOOSE k \in at : \A j \in at : j <= k) - 1]
                   ELSE item]
    /\ resp' = Some(Ok([status |-> "reordered"]))
    /\ UNCHANGED <<devices, schedule_groups, schedules, code, rotated,
                   workers, event_vars, player_vars>>

(* PATCH /api/devices/{device_id} with schedule_group_id set.              *)
BindDevice(device_id, schedule_group_id) ==
    /\ req = None
    /\ req' = Some([op |-> "update_device", device_id |-> device_id,
                    schedule_group_id |-> schedule_group_id])
    /\ IF device_id \in DOMAIN devices
       THEN LET device == [devices[device_id] EXCEPT
                              !.schedule_group_id = schedule_group_id]
            IN  /\ devices' = WithRow(devices, device)
                /\ resp' = Some(Ok(serialize_device(device)))
       ELSE /\ devices' = devices
            /\ resp' = Some(HTTPException(404, "Device not found"))
    /\ UNCHANGED <<schedule_groups, schedules, content_items, code, rotated,
                   workers, event_vars, player_vars>>

(* The rows of `table` that are not of schedule group group_id.            *)
WithoutGroup(table, group_id) ==
    [id \in {i \in DOMAIN table : table[i].schedule_group_id /= group_id} |->
        table[id]]

(* What db.delete(group) does to the schedules of the group: the           *)
(* relationship ScheduleGroup.schedules is declared with                   *)
(* cascade='all, delete-orphan', so they are deleted with it.              *)
CascadeSchedules(group_id) == WithoutGroup(schedules, group_id)

(* What it does to the content items of the group: deletion of a group     *)
(* cascades to its content.                                                *)
CascadeContent(group_id) == WithoutGroup(content_items, group_id)

(* What it does to the devices bound to the group: the relationship        *)
(* ScheduleGroup.devices has no cascade, so their reference is set to      *)
(* NULL.                                                                   *)
Unbound(group_id) ==
    [id \in DOMAIN devices |->
        IF devices[id].schedule_group_id = group_id
        THEN [devices[id] EXCEPT !.schedule_group_id = NULL]
        ELSE devices[id]]

(* DELETE /api/schedule-groups/{group_id}                                  *)
DeleteScheduleGroup(group_id) ==
    /\ req = None
    /\ req' = Some([op |-> "delete_schedule_group", group_id |-> group_id])
    /\ IF group_id \in DOMAIN schedule_groups
       THEN /\ schedule_groups' = WithoutRow(schedule_groups, group_id)
            /\ schedules' = CascadeSchedules(group_id)
            /\ content_items' = CascadeContent(group_id)
            /\ devices' = Unbound(group_id)
            /\ resp' = Some(Ok([status |-> "deleted"]))
       ELSE /\ UNCHANGED db
            /\ resp' = Some(HTTPException(404, "Schedule group not found"))
    /\ UNCHANGED <<code, rotated, workers, event_vars, player_vars>>

(* POST /api/schedule-groups/{group_id}/content with a file whose content  *)
(* type starts with "image/" or "video/" (file_type) or with neither       *)
(* ("other"): the new item gets the number of items of the group as its    *)
(* order.  Uploads beyond MaxContent items are left out.                   *)
UploadContent(group_id, file_type) ==
    /\ req = None
    /\ Cardinality(DOMAIN content_items) < MaxContent
    /\ req' = Some([op |-> "upload_content", group_id |-> group_id])
    /\ IF group_id \notin DOMAIN schedule_groups
       THEN /\ resp' = Some(HTTPException(404, "Schedule group not found"))
            /\ UNCHANGED content_items
       ELSE IF file_type \notin {"video", "image"}
       THEN /\ resp' = Some(HTTPException(400, "Unsupported file type"))
            /\ UNCHANGED content_items
       ELSE LET max_order ==
                    Cardinality({id \in DOMAIN content_items :
                                    content_items[id].schedule_group_id = group_id})
                item == ContentRow(NextId(content_items),
                                   [schedule_group_id |-> group_id,
                                    order |-> max_order, is_active |-> TRUE])
            IN  /\ content_items' = WithRow(content_items, item)
                /\ resp' = Some(Ok(serialize_content_item(item)))
    /\ UNCHANGED <<devices, schedule_groups, schedules, code, rotated,
                   workers, event_vars, player_vars>>

(* DELETE /api/content/{item_id}                                           *)
DeleteContentItem(item_id) ==
    /\ req = None
    /\ req' = Some([op |-> "delete_content_item", item_id |-> item_id])
    /\ IF item_id \in DOMAIN content_items
       THEN /\ content_items' = WithoutRow(content_items, item_id)
            /\ resp' = Some(Ok([status |-> "deleted"]))
       ELSE /\ UNCHANGED content_items
            /\ resp' = Some(HTTPException(404, "Content item not found"))
    /\ UNCHANGED <<devices, schedule_groups, schedules, code, rotated,
                   workers, event_vars, player_vars>>

(* The time strings operators send: "07:05", "22:00", "7:5", "07:05:30",   *)
(* "25:00", "07:60", "0705" and "xx:00".                                   *)
TimeStrings ==
    {<<"0", "7", ":", "0", "5">>, <<"2", "2", ":", "0", "0">>,
     <<"7", ":", "5">>, <<"0", "7", ":", "0", "5", ":", "3", "0">>,
     <<"2", "5", ":", "0", "0">>, <<"0", "7", ":", "6", "0">>,
     <<"0", "7", "0", "5">>, <<"x", "x", ":", "0", "0">>}

(* The ids operators send; the greatest of each kind is of no row.         *)
GroupIds == {1, 2}

ScheduleIds == 1..(MaxSchedules + 1)

(* The schedules operators create: every day from the time they give to    *)
(* 22:00.                                                                  *)
ScheduleCreates ==
    {[schedule_group_id |-> g, start_time |-> s,
      end_time |-> <<"2", "2", ":", "0", "0">>,
      days_of_week |-> <<"0", "1", "2", "3", "4", "5", "6">>,
      priority |-> 0, is_active |-> TRUE] : g \in GroupIds, s \in TimeStrings}

(* The fields operators set on a schedule.                                 *)
ScheduleUpdates ==
    {[start_time |-> s] : s \in TimeStrings} \cup {[is_active |-> FALSE]}

(* One device, one schedule group and its two content items.               *)
InitOperator ==
    /\ devices = <<DeviceRow(NULL)>>
    /\ schedule_groups = <<GroupRow(1, TRUE)>>
    /\ schedules = <<>>
    /\ content_items =
           ContentTable(2, [i \in 1..2 |->
                               [schedule_group_id |-> 1, order |-> i - 1,
                                is_active |-> TRUE]])
    /\ Idle
    /\ PlayersOff

NextOperator ==
    \/ ReturnResponse
    \/ \E data \in ScheduleCreates : CreateSchedule(data)
    \/ \E schedule_id \in ScheduleIds, data \in ScheduleUpdates :
           UpdateSchedule(schedule_id, data)
    \/ \E schedule_id \in ScheduleIds : DeleteSchedule(schedule_id)
    \/ \E group_id \in GroupIds, item_ids \in {<<1, 2>>, <<2, 1>>, <<2, 3>>} :
           ReorderContent(group_id, item_ids)
    \/ \E device_id \in DeviceIds, schedule_group_id \in GroupIds :
           BindDevice(device_id, schedule_group_id)
    \/ \E device_id \in DeviceIds : DeleteDevice(device_id)
    \/ \E group_id \in GroupIds : DeleteScheduleGroup(group_id)
    \/ \E group_id \in GroupIds, file_type \in {"image", "video", "other"} :
           UploadContent(group_id, file_type)
    \/ \E item_id \in 1..(MaxContent + 1) : DeleteContentItem(item_id)

SpecOperator == InitOperator /\ [][NextOperator]_vars

(* A handler serves request r in this step.                                *)
Serves ==
    /\ req = None
    /\ IsSome(req')

(* Request r carries the id of a schedule group, schedule, content item or *)
(* device that does not exist.                                             *)
UnknownId(r) ==
    \/ /\ r.op = "create_schedule"
       /\ r.data.schedule_group_id \notin DOMAIN schedule_groups
    \/ /\ r.op \in {"update_schedule", "delete_schedule"}
       /\ r.schedule_id \notin DOMAIN schedules
    \/ /\ r.op = "reorder_content"
       /\ \/ r.group_id \notin DOMAIN schedule_groups
          \/ \E k \in DOMAIN r.item_ids : r.item_ids[k] \notin DOMAIN content_items
    \/ /\ r.op \in {"update_device", "delete_device"}
       /\ r.device_id \notin DOMAIN devices
    \/ /\ r.op = "update_device"
       /\ "schedule_group_id" \in DOMAIN r
       /\ r.schedule_group_id \notin DOMAIN schedule_groups

(* C27: every server operation that is given an id of a schedule group,    *)
(* schedule, content item or device that does not exist returns a          *)
(* not-found error (404) and changes no stored data; this includes         *)
(* creating a schedule for an unknown group, binding a device to an        *)
(* unknown group and reordering content of an unknown group.               *)
C27_UnknownIdIsNotFound ==
    [][Serves /\ UnknownId(The(req')) =>
           /\ The(resp').status = 404
           /\ db' = db]_vars

(* time_str is HH:MM with a valid hour and minute.                         *)
WellFormed(time_str) ==
    /\ Len(time_str) = 5
    /\ \A i \in {1, 2, 4, 5} : IsDigit(time_str[i])
    /\ time_str[3] = ":"
    /\ DigitValue(time_str[1]) * 10 + DigitValue(time_str[2]) <= 23
    /\ DigitValue(time_str[4]) * 10 + DigitValue(time_str[5]) <= 59

(* Request r creates a schedule, or updates one that exists, with a        *)
(* malformed time string.                                                  *)
MalformedTime(r) ==
    \/ /\ r.op = "create_schedule"
       /\ ~WellFormed(r.data.start_time) \/ ~WellFormed(r.data.end_time)
    \/ /\ r.op = "update_schedule"
       /\ r.schedule_id \in DOMAIN schedules
       /\ \E key \in DOMAIN r.data \cap {"start_time", "end_time"} :
              ~WellFormed(r.data[key])

(* C28: creating or updating a schedule with a malformed time string (not  *)
(* HH:MM with a valid hour and minute) is rejected as a client input error *)
(* (400) and leaves the set of schedules and every schedule's attributes   *)
(* unchanged.                                                              *)
C28_MalformedTimeIsRejected ==
    [][Serves /\ MalformedTime(The(req')) =>
           /\ The(resp').status = 400
           /\ schedules' = schedules]_vars

----------------------------------------------------------------------------
(* Device requests served concurrently.  create_device and                 *)
(* regenerate_access_code are declared with def, so each request runs on   *)
(* a thread of the pool with a session of its own: the query of            *)
(* generate_access_code reads the rows committed so far, and db.commit()   *)
(* writes the row of the request in one step of the store.                 *)

(* The columns of devices on which the store refuses a second row with     *)
(* the same value.  The data model lists the columns of Device and         *)
(* declares a key on id only; uniqueness of access-code is stated as an    *)
(* invariant the allocator guarantees.                                     *)
UniqueColumns == {"id"}

(* sqlalchemy.exc.IntegrityError: writing `row` would give two rows of     *)
(* `table` the same value in a column of UniqueColumns.                    *)
IntegrityError(table, row) ==
    \E column \in UniqueColumns :
        \E other \in DOMAIN table :
            other /= row.id /\ table[other][column] = row[column]

(* The creations in progress that have not committed.                      *)
CreatesInFlight == {w \in Workers : workers[w].op = "create_device"
                             /\ workers[w].pc \in {"generate", "commit"}}

(* POST /api/devices arrives at thread w: the handler builds the Device    *)
(* and calls generate_access_code.  Creations that would get a key beyond  *)
(* MaxDeviceId are left out.                                               *)
BeginCreate(w, name) ==
    /\ workers[w].pc = "idle"
    /\ Cardinality(DOMAIN devices) + Cardinality(CreatesInFlight) < MaxDeviceId
    /\ workers' = [workers EXCEPT ![w] =
                      [WorkerIdle EXCEPT !.pc = "generate",
                                         !.op = "create_device",
                                         !.name = name]]
    /\ UNCHANGED <<db, req, resp, code, rotated, event_vars, player_vars>>

(* POST /api/devices/{device_id}/regenerate-code arrives at thread w: 404  *)
(* for an unknown device, otherwise the handler calls                      *)
(* generate_access_code.                                                   *)
BeginRegenerate(w, device_id) ==
    /\ workers[w].pc = "idle"
    /\ workers' = [workers EXCEPT ![w] =
                      IF device_id \in DOMAIN devices
                      THEN [WorkerIdle EXCEPT !.pc = "generate",
                                              !.op = "regenerate_access_code",
                                              !.device_id = device_id]
                      ELSE [WorkerIdle EXCEPT !.pc = "done",
                                              !.op = "regenerate_access_code",
                                              !.device_id = device_id,
                                              !.resp = Some(HTTPException(404, "Device not found"))]]
    /\ UNCHANGED <<db, req, resp, code, rotated, event_vars, player_vars>>

(* One iteration of the loop of generate_access_code on thread w, randint  *)
(* drawing n: a code in use sends the loop round again, a code that is     *)
(* free is returned to the handler.                                        *)
Draw(w, n) ==
    /\ workers[w].pc = "generate"
    /\ workers' = [workers EXCEPT ![w].code = Some(StrInt(n)),
                                  ![w].pc = IF Taken(StrInt(n)) THEN "generate"
                                            ELSE "commit"]
    /\ UNCHANGED <<db, req, resp, code, rotated, event_vars, player_vars>>

(* The row thread w writes: the new device of create_device, or the        *)
(* device of regenerate_access_code with its code replaced and its         *)
(* registration cleared.                                                   *)
RowOf(w) ==
    IF workers[w].op = "create_device"
    THEN Device(NextDeviceId, workers[w].name, The(workers[w].code))
    ELSE [devices[workers[w].device_id]
             EXCEPT !.access_code = The(workers[w].code),
                    !.is_registered = FALSE]

(* db.commit() on thread w and the rest of the handler.  A commit the      *)
(* store refuses raises, and the request ends in a 500.                    *)
Commit(w) ==
    /\ workers[w].pc = "commit"
    /\ IF IntegrityError(devices, RowOf(w))
       THEN /\ workers' = [workers EXCEPT ![w].pc = "done",
                                          ![w].resp = Some(InternalServerError)]
            /\ UNCHANGED devices
       ELSE /\ devices' = WithRow(devices, RowOf(w))
            /\ workers' = [workers EXCEPT
                   ![w].pc = "done",
                   ![w].resp =
                       IF workers[w].op = "create_device"
                       THEN Some(Ok(serialize_device(RowOf(w))))
                       ELSE Some(Ok([access_code |-> RowOf(w).access_code]))]
    /\ UNCHANGED <<schedule_groups, schedules, content_items, req, resp,
                   code, rotated, event_vars, player_vars>>

(* The response of thread w is sent and the thread returns to the pool.    *)
Respond(w) ==
    /\ workers[w].pc = "done"
    /\ workers' = [workers EXCEPT ![w] = WorkerIdle]
    /\ UNCHANGED <<db, req, resp, code, rotated, event_vars, player_vars>>

(* The names operators give devices.                                       *)
ConcurrentNames == {"Lobby", "Hall"}

NextConcurrent ==
    \/ \E w \in Workers, name \in ConcurrentNames : BeginCreate(w, name)
    \/ \E w \in Workers, device_id \in DeviceIds : BeginRegenerate(w, device_id)
    \/ \E w \in Workers, n \in AllocatorRange : Draw(w, n)
    \/ \E w \in Workers : Commit(w)
    \/ \E w \in Workers : Respond(w)

SpecConcurrent == InitEnrol /\ [][NextConcurrent]_vars

----------------------------------------------------------------------------
(* The file `name` of the content directory holds all the bytes of the     *)
(* upload it was downloaded from.                                          *)
HoldsCompleteDownload(name) ==
    \E url \in DOMAIN Uploads :
        /\ name \in {url, <<"_", "l", "o", "g", "o", "_">> \o url,
                     <<"_", "b", "g", "_">> \o url}
        /\ files[name] = Uploads[url]

(* C31: cached files are written atomically: at every instant, also when   *)
(* a download fails or is interrupted part-way, a file at its final path   *)
(* in the content directory is either absent or holds the complete content *)
(* of a finished download.                                                 *)
C31_FinalPathHoldsCompleteFile ==
    \A name \in DOMAIN files : HoldsCompleteDownload(name)

----------------------------------------------------------------------------
(* The event channel: ConnectionManager, websocket_endpoint and a handler  *)
(* that broadcasts after its commit.  These are coroutines of one event    *)
(* loop: a step runs from one await that suspends to the next.             *)

(* manager.active_connections is a dict: its entries are kept in insertion *)
(* order, and a deleted entry leaves an unused slot behind for as long as  *)
(* an iterator walks the entries.                                          *)
UnusedSlot == [device_key |-> None, websocket |-> 0]

(* The slots of the dict that hold an entry.                               *)
Used(d) == {k \in DOMAIN d : d[k] /= UnusedSlot}

(* The dict without its unused slots.                                      *)
RECURSIVE Compact(_)
Compact(d) ==
    IF d = <<>> THEN <<>>
    ELSE IF Head(d) = UnusedSlot THEN Compact(Tail(d))
         ELSE <<Head(d)>> \o Compact(Tail(d))

(* d as it is stored: slots are reclaimed when no iterator is walking d.   *)
Stored(d) == IF broadcast = None THEN Compact(d) ELSE d

(* self.active_connections[device_key] = websocket                         *)
connect(d, websocket, device_key) ==
    IF \E k \in Used(d) : d[k].device_key = Some(device_key)
    THEN [k \in DOMAIN d |->
             IF d[k].device_key = Some(device_key)
             THEN [d[k] EXCEPT !.websocket = websocket] ELSE d[k]]
    ELSE Append(d, [device_key |-> Some(device_key), websocket |-> websocket])

(* manager.disconnect(device_key), called by the endpoint of `websocket`:  *)
(* the entry of device_key is deleted, whichever stream it names.          *)
disconnect(d, websocket, device_key) ==
    [k \in DOMAIN d |->
        IF d[k].device_key = Some(device_key) THEN UnusedSlot ELSE d[k]]

(* The devices of the event model and their access codes.                  *)
EventCodes == {KnownCode, StrInt(randint_low)}

InitEvents ==
    /\ devices = <<Device(1, "D1", KnownCode), Device(2, "D2", StrInt(randint_low))>>
    /\ schedule_groups = <<GroupRow(1, TRUE)>>
    /\ schedules = <<>>
    /\ content_items =
           ContentTable(1, <<[schedule_group_id |-> 1, order |-> 0,
                              is_active |-> TRUE]>>)
    /\ Idle
    /\ PlayersOff

(* A player opens /ws/{access_code} as stream c.  An unknown code is       *)
(* closed with 4004; otherwise the stream is accepted and registered and   *)
(* the device is marked online.                                            *)
WebsocketConnect(c, access_code, utcnow) ==
    /\ websockets[c].state = "new"
    /\ IF ~existing(access_code)
       THEN /\ websockets' = [websockets EXCEPT ![c].state = "closed"]
            /\ UNCHANGED <<devices, active_connections>>
       ELSE LET device == [FirstWithCode(access_code) EXCEPT
                               !.is_online = TRUE,
                               !.last_seen = Some(utcnow)]
            IN  /\ websockets' = [websockets EXCEPT
                                     ![c].state = "open",
                                     ![c].access_code = Some(access_code)]
                /\ active_connections' =
                       connect(active_connections, c, access_code)
                /\ devices' = WithRow(devices, device)
    /\ UNCHANGED <<schedule_groups, schedules, content_items, req, resp, code,
                   rotated, workers, broadcast, player_vars>>

(* What `await websocket.receive_json()` may bring: a heartbeat, a         *)
(* sync_complete, the end of the stream (WebSocketDisconnect), or a frame  *)
(* that is not JSON (json.loads raises).                                   *)
Received == {"heartbeat", "sync_complete", "disconnect", "not json"}

(* One round of the loop of websocket_endpoint on stream c.  Only          *)
(* WebSocketDisconnect is caught; any other exception leaves the function  *)
(* without the clean-up.                                                   *)
ReceiveJson(c, data, utcnow) ==
    /\ websockets[c].state \in {"open", "lost"}
    /\ websockets[c].state = "lost" => data = "disconnect"
    /\ LET access_code == The(websockets[c].access_code)
           device == FirstWithCode(access_code)
       IN  CASE data = "heartbeat" ->
                  /\ devices' = WithRow(devices,
                                    [device EXCEPT !.last_seen = Some(utcnow)])
                  /\ UNCHANGED <<active_connections, websockets>>
             [] data = "sync_complete" ->
                  UNCHANGED <<devices, active_connections, websockets>>
             [] data = "disconnect" ->
                  /\ active_connections' =
                         Stored(disconnect(active_connections, c, access_code))
                  /\ devices' = WithRow(devices,
                                    [device EXCEPT !.is_online = FALSE])
                  /\ websockets' = [websockets EXCEPT ![c].state = "closed"]
             [] data = "not json" ->
                  /\ websockets' = [websockets EXCEPT ![c].state = "closed"]
                  /\ UNCHANGED <<devices, active_connections>>
    /\ UNCHANGED <<schedule_groups, schedules, content_items, req, resp, code,
                   rotated, workers, broadcast, player_vars>>

(* The player of stream c goes away without closing the stream; the        *)
(* server learns of it at a later receive.                                 *)
PlayerLost(c) ==
    /\ websockets[c].state = "open"
    /\ websockets' = [websockets EXCEPT ![c].state = "lost"]
    /\ UNCHANGED <<db, req, resp, code, rotated, workers, active_connections,
                   broadcast, player_vars>>

(* `for connection in self.active_connections.values()` fetches the next   *)
(* connection after slot i: RuntimeError when the dict has changed size    *)
(* since the iterator was made, the end of the loop after the last entry.  *)
(* The handler returns `body` after the loop and fails with a 500 when     *)
(* the loop raises.                                                        *)
NextConnection(d, it, body) ==
    IF Cardinality(Used(d)) /= it.used
    THEN /\ broadcast' = None
         /\ resp' = Some(InternalServerError)
         /\ active_connections' = Compact(d)
    ELSE IF \A k \in Used(d) : k <= it.i
    THEN /\ broadcast' = None
         /\ resp' = Some(Ok(body))
         /\ active_connections' = Compact(d)
    ELSE LET k == CHOOSE k \in Used(d) :
                      k > it.i /\ \A j \in Used(d) : j > it.i => k <= j
         IN  /\ broadcast' = Some([it EXCEPT !.i = k,
                                             !.connection = d[k].websocket])
             /\ resp' = None
             /\ active_connections' = d

(* PATCH /api/content/{item_id}: 404 for an unknown item; otherwise the    *)
(* change is committed and manager.broadcast starts, up to its first send. *)
UpdateContentItem(item_id, is_active) ==
    /\ req = None
    /\ broadcast = None
    /\ req' = Some([op |-> "update_content_item", item_id |-> item_id])
    /\ IF item_id \notin DOMAIN content_items
       THEN /\ resp' = Some(HTTPException(404, "Content item not found"))
            /\ UNCHANGED <<content_items, active_connections, broadcast>>
       ELSE LET item == [content_items[item_id] EXCEPT !.is_active = is_active]
            IN  /\ content_items' = WithRow(content_items, item)
                /\ NextConnection(active_connections,
                                  [i |-> 0, connection |-> 0,
                                   used |-> Cardinality(Used(active_connections)),
                                   connected |-> {active_connections[k].websocket :
                                                     k \in Used(active_connections)},
                                   sent |-> {}],
                                  serialize_content_item(item))
    /\ UNCHANGED <<devices, schedule_groups, schedules, code, rotated, workers,
                   websockets, player_vars>>

(* How `await connection.send_json(message)` may end on a stream in each   *)
(* state: a stream whose player is lost takes the message or raises, a     *)
(* closed stream raises.                                                   *)
SendOutcomes(state) ==
    CASE state = "open" -> {"sent"}
      [] state = "lost" -> {"sent", "raises"}
      [] OTHER -> {"raises"}

(* The send of manager.broadcast in progress returns or raises, and the    *)
(* loop goes on to its next await; an exception ends the handler.          *)
SendJson(outcome) ==
    /\ IsSome(broadcast)
    /\ LET it == The(broadcast)
           c == it.connection
           item == content_items[The(req).item_id]
       IN  /\ outcome \in SendOutcomes(websockets[c].state)
           /\ IF outcome = "raises"
              THEN /\ broadcast' = None
                   /\ resp' = Some(InternalServerError)
                   /\ active_connections' = Compact(active_connections)
                   /\ UNCHANGED websockets
              ELSE /\ websockets' =
                          IF websockets[c].state = "open"
                          THEN [websockets EXCEPT ![c].received = 1]
                          ELSE websockets
                   /\ NextConnection(active_connections,
                                     [it EXCEPT !.sent = @ \cup {c}],
                                     serialize_content_item(item))
    /\ UNCHANGED <<db, req, code, rotated, workers, player_vars>>

NextEvents ==
    \/ ReturnResponse
    \/ \E c \in Connections, access_code \in EventCodes \cup {UnknownCode},
          utcnow \in UtcNows : WebsocketConnect(c, access_code, utcnow)
    \/ \E c \in Connections, data \in Received, utcnow \in UtcNows :
           ReceiveJson(c, data, utcnow)
    \/ \E c \in Connections : PlayerLost(c)
    \/ \E item_id \in {1, 2}, is_active \in BOOLEAN :
           UpdateContentItem(item_id, is_active)
    \/ \E outcome \in {"sent", "raises"} : SendJson(outcome)

SpecEvents == InitEvents /\ [][NextEvents]_vars

----------------------------------------------------------------------------
(* The loop of manager.broadcast ends in this step.                        *)
BroadcastEnds == IsSome(broadcast) /\ broadcast' = None

(* C32: a broadcast reaches every device connected when it starts: a send  *)
(* to one connection that blocks or fails does not prevent delivery to the *)
(* others, and a device connecting or disconnecting during the broadcast   *)
(* does not make it fail.  When the loop ends, every stream that was       *)
(* registered at its start and is still open has been sent the message.    *)
C32_BroadcastReachesEveryConnection ==
    [][BroadcastEnds =>
          \A c \in The(broadcast).connected :
              websockets'[c].state = "open" =>
                  c \in The(broadcast).sent \cup {The(broadcast).connection}]_vars

(* C33: the event channel is best-effort: a write whose change has been    *)
(* committed reports success to the operator even when delivering the      *)
(* notification to a connected player fails.                               *)
C33_NotificationFailureKeepsSuccess ==
    (/\ Serving("update_content_item")
     /\ The(req).item_id \in DOMAIN content_items
     /\ IsSome(resp))
        => The(resp).status = 200

(* websocket_endpoint of stream c returns or raises in this step.          *)
StreamEnds(c) ==
    /\ websockets[c].state \in {"open", "lost"}
    /\ websockets'[c].state = "closed"

(* C34: whenever a device's event stream ends, for whatever reason (clean  *)
(* disconnect or an error while receiving or sending), its entry is        *)
(* removed from the connection registry and the device is marked offline.  *)
C34_StreamEndCleansUp ==
    [][\A c \in Connections :
          StreamEnds(c) =>
              /\ \A k \in Used(active_connections') :
                     active_connections'[k].websocket /= c
              /\ \A id \in DeviceWithCode(The(websockets[c].access_code)) :
                     ~devices'[id].is_online]_vars

(* C39: while a device has at least one open event-stream connection, the  *)
(* registry holds an entry for its access code that points to an open      *)
(* connection and the device is marked online, also when a second          *)
(* connection is opened with the same access code and one of the two then  *)
(* disconnects.                                                            *)
C39_OpenStreamIsRegisteredAndOnline ==
    \A c \in Connections :
        websockets[c].state = "open" =>
            /\ \E k \in Used(active_connections) :
                  /\ active_connections[k].device_key = websockets[c].access_code
                  /\ websockets[active_connections[k].websocket].state
                         \in {"open", "lost"}
            /\ \A id \in DeviceWithCode(The(websockets[c].access_code)) :
                  devices[id].is_online

----------------------------------------------------------------------------
(* C35: when the player enters the setup screen (Ctrl+S) during playback,  *)
(* the pending advance timer and the periodic sync timer are cancelled and *)
(* a playing video is paused, so that no advance or sync callback fires    *)
(* while the setup screen is shown.                                        *)
C35_SetupScreenStopsPlayback ==
    \A p \in Players :
        players[p].screen = "setup" =>
            /\ players[p].advanceTimeout = None
            /\ ~players[p].syncInterval
            /\ players[p].video /= "playing"

----------------------------------------------------------------------------
(* C36: with a non-empty playlist the playback loop never stalls:          *)
(* whatever item is shown, the next item is eventually shown, also when    *)
(* the item fails to load, has no local file, or is a video whose play()   *)
(* is rejected or which never fires 'ended'.  Timeouts are the only        *)
(* callbacks that are certain to run, so while an item of a playlist is    *)
(* on show a timeout is pending.                                           *)
C36_PlaybackNeverStalls ==
    \A p \in Players :
        players[p].screen = "playing" /\ Len(players[p].playlist) > 0 =>
            IsSome(players[p].advanceTimeout)

(* showContent() runs on the page of player p in this step: called by      *)
(* advance(), by the timeout of the default display, or by startPlayback() *)
(* after the first sync.                                                   *)
ShowContentRuns(p) ==
    \/ AdvanceCalled(p)
    \/ /\ threads' = threads
       /\ clock' = clock
       /\ players'[p] /= players[p]
       /\ players'[p].screen = players[p].screen
       /\ Due(p) /\ The(players[p].advanceTimeout).callback = "showContent"
    \/ \E t \in Threads :
          /\ threads[t].pc = "returned" /\ threads'[t].pc = "idle"
          /\ threads[t].caller /= "startSyncLoop"
          /\ threads[t].result
          /\ p = 1

(* C38: whenever the playlist is non-empty and showContent runs,           *)
(* currentIndex is a valid index of the playlist, after any sequence of    *)
(* syncs that replace the playlist with a shorter, empty or longer one and *)
(* any interleaving of those syncs with advance and the timeout of the     *)
(* default display.                                                        *)
C38_ShowContentIndexInRange ==
    [][\A p \in Players :
          ShowContentRuns(p) /\ Len(players'[p].playlist) > 0 =>
              players'[p].currentIndex < Len(players'[p].playlist)]_vars

----------------------------------------------------------------------------
(* C37: after any sequence of server operations, every schedule refers to  *)
(* an existing schedule group: a schedule is never created for a group id  *)
(* that does not exist and never survives the deletion of its group.       *)
C37_SchedulesReferToExistingGroups ==
    \A id \in DOMAIN schedules :
        schedules[id].schedule_group_id \in DOMAIN schedule_groups

(* C40: within one schedule group the order values of the content items    *)
(* are pairwise distinct after any sequence of upload, delete and reorder  *)
(* operations.                                                             *)
C40_OrdersDistinctWithinGroup ==
    \A a, b \in DOMAIN content_items :
        (a /= b /\ content_items[a].schedule_group_id
                       = content_items[b].schedule_group_id)
            => content_items[a].order /= content_items[b].order

====
